---- MODULE Spec2Model ----
(***************************************************************************)
(* Model of the asynchronous coordination protocols of the 3-D Secure      *)
(* browser SDK: the challenge modal (ChallengeModal), the device-data      *)
(* collector (DeviceDataCollector) and the module-scoped script loader of  *)
(* WebClient.  The browser is single-threaded: every action below is one   *)
(* macrotask (a call of a public method, one timer callback, one dispatch  *)
(* of a window 'message' event, one script load/error event).              *)
(***************************************************************************)
EXTENDS Integers, Sequences, FiniteSets, TLC

(***************************************************************************)
(* Bounds of the model.                                                    *)
(***************************************************************************)
MaxShows == 3

MaxCollects == 3

MaxCalls == 2

MaxTokenizes == 1

Sessions == 1..MaxShows

Collects == 1..MaxCollects

\* waitForLibrary calls; the load attempt (loadFlexScript promise) and the
\* script tag created by call number c carry the number c
Calls == 1..MaxCalls

\* tokenize calls on the adapter
Tokenizes == 1..MaxTokenizes

Urls == {"A", "B"}

\* maxAttempts of waitForFlexConstructor
maxAttempts == 30

\* null of a field that holds an object created by show() number s
NoSession == 0

(***************************************************************************)
(* Inputs of ChallengeModal.show(): options.completionMessageType and      *)
(* options.transactionId ("none" is undefined / the empty string).         *)
(***************************************************************************)
TypeOptions == {"none", "CUSTOM"}

TxnOptions == {"none", "T1"}

\* event.data of a window message: a non-object, or an object with a type
\* and an optional transactionId
MsgTypes == {"3DS_COMPLETE", "3DS_CHALLENGE_COMPLETE", "CUSTOM", "OTHER"}

MsgTxns == {"none", "T1", "T2"}

MsgData == {[obj |-> FALSE, type |-> "OTHER", transactionId |-> "none"]}
           \cup [obj : {TRUE}, type : MsgTypes, transactionId : MsgTxns]

NoData == [obj |-> FALSE, type |-> "OTHER", transactionId |-> "none"]

\* event.origin of a window message, as the sequence of its parts;
\* String.prototype.includes is the search of a part
Origins == {<<"https://", "merchant.example">>,
            <<"https://", "centinelapi", ".", "cardinalcommerce.com">>,
            <<"https://", "geo.", "cardinalcommerce.com">>,
            <<"https://", "centinelapi", ".example.net">>}

includes(origin, part) == \E i \in 1..Len(origin) : origin[i] = part

\* the origins of the messages that are delivered while a challenge is
\* shown: the merchant's page and the page in the challenge iframe
ChallengeOrigins ==
  {<<"https://", "merchant.example">>,
   <<"https://", "centinelapi", ".", "cardinalcommerce.com">>}

VARIABLES
  \* ---- ChallengeModal instance fields (part_002 lines 6-15) ----
  overlay,          \* this.overlay (with this.modal and this.iframe inside it)
  form,             \* this.form
  messageListener,  \* this.messageListener
  timeoutId,        \* this.timeoutId
  isResolved,       \* this.isResolved
  rejectPromise,    \* this.rejectPromise
  \* ---- browser state touched by ChallengeModal ----
  docOverlays,      \* overlays that are children of document.body
  docForms,         \* step-up forms that are children of document.body
  winListeners,     \* 'message' listeners of window, in registration order
  timers,           \* armed setTimeout timers
  submitted,        \* forms on which submit() was called
  \* ---- one promise per show() call, and the closure of that call ----
  promise,          \* state and outcome of the promise returned by show()
  settleCalls,      \* number of calls of that promise's resolve / reject
  opts,             \* options captured by the closures of that show()
  shows,            \* number of show() calls made so far
  \* ---- DeviceDataCollector instance fields (device-data-collector.ts 5-7)
  ddIframe,         \* this.iframe
  ddForm,           \* this.form
  ddMessageListener, \* this.messageListener
  \* ---- browser state touched by DeviceDataCollector ----
  ddDocIframes,     \* hidden iframes that are children of document.body
  ddDocForms,       \* hidden forms that are children of document.body
  ddWinListeners,   \* 'message' listeners of window, in registration order
  ddTimers,         \* armed setTimeout timers (const timeoutId of collect())
  \* ---- one promise per collect() call ----
  ddPromise,        \* state and value of the promise returned by collect()
  collects,         \* number of collect() calls made so far
  \* ---- module-scoped script-load state of WebClient (part_004 155-156)
  flexLoadPromise,  \* let flexLoadPromise: the cached load attempt, or 0
  loadedFlexScriptUrl, \* let loadedFlexScriptUrl, or "null"
  \* ---- browser state touched by the script loader ----
  winFlex,          \* window.Flex: "undefined", or the URL whose script set it
  tag,              \* the script elements created by loadFlexScript
  \* ---- promises and callers ----
  attempt,          \* the promises returned by loadFlexScript
  caller,           \* the waitForLibrary calls
  calls,            \* number of waitForLibrary calls made so far
  \* ---- one FlexMicroform and its tokenize calls (flex-microform.ts) ----
  constructed,      \* the constructor has run
  abortSignal,      \* this.options.abortSignal
  microform,        \* this.microform is not null
  tokenization,     \* the tokenize calls: inputs, promises, timer, listener
  tokenizes,        \* number of tokenize calls made so far
  \* ---- decodeCaptureContext (utils/index.ts) ----
  decoding,         \* the last call: its argument and its outcome
  \* ---- WebClient and the adapters it creates (part_004, flex-microform.ts)
  flexMicroform,    \* this.flexMicroform of WebClient: an adapter, or 0
  adapter,          \* the FlexMicroform objects: fields, initialize() state
  setup,            \* the setupFlexMicroform calls
  \* ---- browser state touched by FlexMicroform ----
  hostContent,      \* the adapter whose field containers a host element holds
  docStyles,        \* <style data-flex-microform> elements in document.head
  mounted,          \* the vendor iframes in the field containers of a host
  \* ---- the delays given to setTimeout by collect() and show() ----
  timerDelay,       \* the options and the delay of the last call of each
  \* ---- the older ChallengeModal (part_002 lines 233-405) ----
  legacyModal,      \* its instance fields and the part of the page it touches
  legacyWait        \* the older WebClient.waitForLibrary: a call and the globals

modalVars == <<overlay, form, messageListener, timeoutId, isResolved,
               rejectPromise, docOverlays, docForms, winListeners, timers,
               submitted, promise, settleCalls, opts, shows>>

collectorVars == <<ddIframe, ddForm, ddMessageListener, ddDocIframes,
                   ddDocForms, ddWinListeners, ddTimers, ddPromise, collects>>

loaderVars == <<flexLoadPromise, loadedFlexScriptUrl, winFlex, tag, attempt,
                caller, calls>>

tokenizeVars == <<constructed, abortSignal, microform, tokenization, tokenizes>>

flexVars == <<flexMicroform, adapter, setup, hostContent, docStyles, mounted>>

extraVars == <<timerDelay, legacyModal, legacyWait>>

vars == <<modalVars, collectorVars, loaderVars, tokenizeVars, decoding, flexVars,
         extraVars>>

Pending == [st |-> "pending", err |-> "none", data |-> NoData]

NotCreated == [st |-> "none", err |-> "none", data |-> NoData]

Resolved(d) == [st |-> "resolved", err |-> "none", data |-> d]

Rejected(e) == [st |-> "rejected", err |-> e, data |-> NoData]

(***************************************************************************)
(* The modal controller and the part of the browser it touches, as one     *)
(* record, so that the callbacks can be written as functions on it.        *)
(***************************************************************************)
ModalState ==
  [overlay |-> overlay, form |-> form, messageListener |-> messageListener,
   timeoutId |-> timeoutId, isResolved |-> isResolved,
   rejectPromise |-> rejectPromise, docOverlays |-> docOverlays,
   docForms |-> docForms, winListeners |-> winListeners, timers |-> timers,
   promise |-> promise, settleCalls |-> settleCalls]

SetModalState(m) ==
  /\ overlay' = m.overlay
  /\ form' = m.form
  /\ messageListener' = m.messageListener
  /\ timeoutId' = m.timeoutId
  /\ isResolved' = m.isResolved
  /\ rejectPromise' = m.rejectPromise
  /\ docOverlays' = m.docOverlays
  /\ docForms' = m.docForms
  /\ winListeners' = m.winListeners
  /\ timers' = m.timers
  /\ promise' = m.promise
  /\ settleCalls' = m.settleCalls

RemoveListener(seq, l) == SelectSeq(seq, LAMBDA x : x # l)

\* resolve(v) / reject(e) of the promise of show() number s: only the first
\* call settles the promise
Settle(m, s, outcome) ==
  [m EXCEPT !.promise[s] = IF @.st = "pending" THEN outcome ELSE @,
            !.settleCalls[s] = @ + 1]

\* ChallengeModal.cleanup
cleanup(m) ==
  [m EXCEPT !.timers = @ \ {m.timeoutId},
            !.timeoutId = NoSession,
            !.winListeners = RemoveListener(@, m.messageListener),
            !.messageListener = NoSession,
            !.docOverlays = @ \ {m.overlay},
            !.overlay = NoSession,
            !.docForms = @ \ {m.form},
            !.form = NoSession,
            !.rejectPromise = NoSession]

TimeoutError == "Challenge timed out. Please try again."

\* safeResolve of show() number s
safeResolve(m, s, result) ==
  IF m.isResolved THEN m
  ELSE Settle(cleanup([m EXCEPT !.isResolved = TRUE]), s, Resolved(result))

\* safeReject of show() number s
safeReject(m, s, error) ==
  IF m.isResolved THEN m
  ELSE Settle(cleanup([m EXCEPT !.isResolved = TRUE]), s, Rejected(error))

\* expectedMessageType of a show() call
expectedMessageType(o) == IF o.type = "none" THEN "3DS_COMPLETE" ELSE o.type

\* the checks of the message listener that do not depend on isResolved
Accepts(o, data) ==
  /\ data.obj
  /\ data.type = expectedMessageType(o) \/ data.type = "3DS_CHALLENGE_COMPLETE"
  /\ ~ (o.transactionId # "none" /\ data.transactionId # "none"
        /\ data.transactionId # o.transactionId)

\* a MessageEvent: its origin (as the sequence of its parts) and its data
Event(origin, data) == [origin |-> origin, data |-> data]

\* a message listener that takes only messages from the origins that the
\* device-data collector takes
listenerCallOriginChecked(m, s, event) ==
  IF m.isResolved THEN m
  ELSE IF ~ (\E i \in 1..Len(event.origin) :
               event.origin[i] \in {"cardinalcommerce.com", "centinelapi"})
  THEN m
  ELSE IF ~ Accepts(opts[s], event.data) THEN m
  ELSE safeResolve(m, s, event.data)

\* this.messageListener created by show() number s, called with the event
listenerCall(m, s, event) ==
  IF m.isResolved THEN m
  ELSE IF ~ Accepts(opts[s], event.data) THEN m
  ELSE safeResolve(m, s, event.data)

\* dispatch of one 'message' event: the listeners registered when the
\* dispatch starts are called in registration order; a listener removed by
\* an earlier listener of the same dispatch is not called
RECURSIVE dispatch(_, _, _)
dispatch(m, snapshot, event) ==
  IF snapshot = << >> THEN m
  ELSE LET l == Head(snapshot)
           still == \E i \in 1..Len(m.winListeners) : m.winListeners[i] = l
       IN dispatch(IF still THEN listenerCall(m, l, event) ELSE m,
                   Tail(snapshot), event)

ModalInit ==
  /\ overlay = NoSession
  /\ form = NoSession
  /\ messageListener = NoSession
  /\ timeoutId = NoSession
  /\ isResolved = FALSE
  /\ rejectPromise = NoSession
  /\ docOverlays = {}
  /\ docForms = {}
  /\ winListeners = << >>
  /\ timers = {}
  /\ submitted = {}
  /\ promise = [s \in Sessions |-> NotCreated]
  /\ settleCalls = [s \in Sessions |-> 0]
  /\ opts = [s \in Sessions |-> [type |-> "none", transactionId |-> "none"]]
  /\ shows = 0

\* ChallengeModal.show(stepUpUrl, accessToken, options); the DOM calls of the
\* try block do not throw, so the catch branch is not taken
show(o) ==
  /\ shows < MaxShows
  /\ LET s == shows + 1 IN
       /\ shows' = s
       /\ opts' = [opts EXCEPT ![s] = o]
       /\ isResolved' = FALSE
       /\ rejectPromise' = s
       /\ overlay' = s
       /\ docOverlays' = docOverlays \cup {s}
       /\ form' = s
       /\ docForms' = docForms \cup {s}
       /\ messageListener' = s
       /\ winListeners' = Append(winListeners, s)
       /\ timeoutId' = s
       /\ timers' = timers \cup {s}
       /\ submitted' = submitted \cup {s}
       /\ promise' = [promise EXCEPT ![s] = Pending]
       /\ UNCHANGED settleCalls
  /\ UNCHANGED <<collectorVars, loaderVars, tokenizeVars, decoding, flexVars, extraVars>>

\* a 'message' event is dispatched on window
windowMessage(data) ==
  /\ \E origin \in ChallengeOrigins :
        SetModalState(dispatch(ModalState, winListeners, Event(origin, data)))
  /\ UNCHANGED <<submitted, opts, shows>>
  /\ UNCHANGED <<collectorVars, loaderVars, tokenizeVars, decoding, flexVars, extraVars>>

\* the setTimeout callback of show() number s runs
timerFire(s) ==
  /\ s \in timers
  /\ SetModalState(safeReject([ModalState EXCEPT !.timers = @ \ {s}], s,
                              TimeoutError))
  /\ UNCHANGED <<submitted, opts, shows>>
  /\ UNCHANGED <<collectorVars, loaderVars, tokenizeVars, decoding, flexVars, extraVars>>

\* ChallengeModal.close
close ==
  /\ LET m0 == ModalState
         m1 == IF ~ m0.isResolved
               THEN [(IF m0.rejectPromise # NoSession
                      THEN Settle(m0, m0.rejectPromise,
                                  Rejected("Challenge closed manually"))
                      ELSE m0) EXCEPT !.isResolved = TRUE]
               ELSE m0
     IN SetModalState(cleanup(m1))
  /\ UNCHANGED <<submitted, opts, shows>>
  /\ UNCHANGED <<collectorVars, loaderVars, tokenizeVars, decoding, flexVars, extraVars>>

\* ChallengeModal.destroy
challengeModalDestroy(m0) ==
  LET m1 == IF ~ m0.isResolved /\ m0.rejectPromise # NoSession
            THEN Settle(m0, m0.rejectPromise,
                        Rejected("ChallengeModal destroyed"))
            ELSE m0
  IN cleanup([m1 EXCEPT !.isResolved = TRUE])

\* a call of ChallengeModal.destroy by the application
destroy ==
  /\ SetModalState(challengeModalDestroy(ModalState))
  /\ UNCHANGED <<submitted, opts, shows>>
  /\ UNCHANGED <<collectorVars, loaderVars, tokenizeVars, decoding, flexVars, extraVars>>

(***************************************************************************)
(* DeviceDataCollector (src/ui/device-data-collector.ts).                  *)
(***************************************************************************)
\* the origin check of the collector's message listener
OriginAllowed(origin) ==
  includes(origin, "cardinalcommerce.com") \/ includes(origin, "centinelapi")

DdNotCreated == [st |-> "none", timeout |-> FALSE]

DdPending == [st |-> "pending", timeout |-> FALSE]

\* { success: true }
DdSuccess == [st |-> "resolved", timeout |-> FALSE]

\* { success: true, timeout: true }
DdSuccessTimeout == [st |-> "resolved", timeout |-> TRUE]

CollectorState ==
  [iframe |-> ddIframe, form |-> ddForm, messageListener |-> ddMessageListener,
   docIframes |-> ddDocIframes, docForms |-> ddDocForms,
   winListeners |-> ddWinListeners, promise |-> ddPromise]

SetCollectorState(c) ==
  /\ ddIframe' = c.iframe
  /\ ddForm' = c.form
  /\ ddMessageListener' = c.messageListener
  /\ ddDocIframes' = c.docIframes
  /\ ddDocForms' = c.docForms
  /\ ddWinListeners' = c.winListeners
  /\ ddPromise' = c.promise

\* resolve(value) of the promise of collect() number k
ddResolve(c, k, value) ==
  [c EXCEPT !.promise[k] = IF @.st = "pending" THEN value ELSE @]

\* DeviceDataCollector.cleanup
ddCleanup(c) ==
  [c EXCEPT !.winListeners = RemoveListener(@, c.messageListener),
            !.messageListener = NoSession,
            !.docForms = @ \ {c.form},
            !.form = NoSession,
            !.docIframes = @ \ {c.iframe},
            !.iframe = NoSession]

\* this.messageListener created by collect() number k
ddListenerCall(c, k, origin) ==
  IF OriginAllowed(origin) THEN ddResolve(ddCleanup(c), k, DdSuccess) ELSE c

RECURSIVE ddDispatch(_, _, _)
ddDispatch(c, snapshot, origin) ==
  IF snapshot = << >> THEN c
  ELSE LET l == Head(snapshot)
           still == \E i \in 1..Len(c.winListeners) : c.winListeners[i] = l
       IN ddDispatch(IF still THEN ddListenerCall(c, l, origin) ELSE c,
                     Tail(snapshot), origin)

CollectorInit ==
  /\ ddIframe = NoSession
  /\ ddForm = NoSession
  /\ ddMessageListener = NoSession
  /\ ddDocIframes = {}
  /\ ddDocForms = {}
  /\ ddWinListeners = << >>
  /\ ddTimers = {}
  /\ ddPromise = [k \in Collects |-> DdNotCreated]
  /\ collects = 0

\* DeviceDataCollector.collect(deviceDataCollectionUrl, accessToken, options)
collect ==
  /\ collects < MaxCollects
  /\ LET k == collects + 1 IN
       /\ collects' = k
       /\ ddIframe' = k
       /\ ddDocIframes' = ddDocIframes \cup {k}
       /\ ddForm' = k
       /\ ddDocForms' = ddDocForms \cup {k}
       /\ ddMessageListener' = k
       /\ ddWinListeners' = Append(ddWinListeners, k)
       /\ ddTimers' = ddTimers \cup {k}
       /\ ddPromise' = [ddPromise EXCEPT ![k] = DdPending]
  /\ UNCHANGED <<modalVars, loaderVars, tokenizeVars, decoding, flexVars, extraVars>>

\* a 'message' event with the given origin is dispatched on window
ddWindowMessage(origin) ==
  /\ SetCollectorState(ddDispatch(CollectorState, ddWinListeners, origin))
  /\ UNCHANGED <<ddTimers, collects>>
  /\ UNCHANGED <<modalVars, loaderVars, tokenizeVars, decoding, flexVars, extraVars>>

\* the setTimeout callback of collect() number k runs
ddTimerFire(k) ==
  /\ k \in ddTimers
  /\ ddTimers' = ddTimers \ {k}
  /\ SetCollectorState(ddResolve(ddCleanup(CollectorState), k,
                                 DdSuccessTimeout))
  /\ UNCHANGED collects
  /\ UNCHANGED <<modalVars, loaderVars, tokenizeVars, decoding, flexVars, extraVars>>

\* DeviceDataCollector.cleanup() called by the application, and
\* DeviceDataCollector.destroy(), which only calls cleanup()
ddDestroy ==
  /\ SetCollectorState(ddCleanup(CollectorState))
  /\ UNCHANGED <<ddTimers, collects>>
  /\ UNCHANGED <<modalVars, loaderVars, tokenizeVars, decoding, flexVars, extraVars>>

(***************************************************************************)
(* Script loader of WebClient (part_004 lines 155-295, 405-410).           *)
(***************************************************************************)
NoTag == [url |-> "null", st |-> "none", inDoc |-> FALSE, defined |-> FALSE]

NoAttempt == [url |-> "null", st |-> "none", err |-> "none", tag |-> 0,
              phase |-> "none", attempt |-> 0]

NoCaller == [url |-> "null", st |-> "none", awaits |-> 0]

LoadTimeoutError == "Flex SDK script loaded but Flex constructor not available."

LoadError == "Failed to load Flex SDK. Check network connection and script URL."

ExistingLoadError == "Failed to load existing Flex SDK script"

LoaderState ==
  [flexLoadPromise |-> flexLoadPromise,
   loadedFlexScriptUrl |-> loadedFlexScriptUrl, winFlex |-> winFlex,
   tag |-> tag, attempt |-> attempt, caller |-> caller]

SetLoaderState(l) ==
  /\ flexLoadPromise' = l.flexLoadPromise
  /\ loadedFlexScriptUrl' = l.loadedFlexScriptUrl
  /\ winFlex' = l.winFlex
  /\ tag' = l.tag
  /\ attempt' = l.attempt
  /\ caller' = l.caller

\* typeof window.Flex === 'function'
FlexIsFunction(l) == l.winFlex # "undefined"

\* the continuation of 'await flexLoadPromise' of the callers of attempt a
Resume(l, a) ==
  [l EXCEPT !.caller =
     [c \in Calls |->
        IF l.caller[c].st = "awaiting" /\ l.caller[c].awaits = a
        THEN [l.caller[c] EXCEPT
                !.st = IF l.attempt[a].st = "resolved" THEN "returned"
                       ELSE "threw"]
        ELSE l.caller[c]]]

\* resolve() of the promise of load attempt a
resolveLoad(l, a) ==
  IF l.attempt[a].st # "pending" THEN l
  ELSE Resume([l EXCEPT !.attempt[a].st = "resolved"], a)

\* reject(error) of the promise of load attempt a
rejectLoad(l, a, error) ==
  IF l.attempt[a].st # "pending" THEN l
  ELSE Resume([l EXCEPT !.attempt[a].st = "rejected",
                        !.attempt[a].err = error], a)

\* one iteration of the loop of waitForFlexConstructor of attempt a, with
\* loop variable i: the check of window.Flex, then sleep(intervalMs)
flexCheck(l, a, i) ==
  IF FlexIsFunction(l)
  THEN resolveLoad([l EXCEPT !.loadedFlexScriptUrl = l.attempt[a].url,
                             !.attempt[a].phase = "done"], a)
  ELSE [l EXCEPT !.attempt[a].phase = "poll", !.attempt[a].attempt = i]

\* waitForFlexConstructor of attempt a, up to its first sleep
waitForFlexConstructor(l, a) == flexCheck(l, a, 0)

\* document.querySelector('script[src="url"]'): 0 when there is none
existingScript(l, url) ==
  LET found == {t \in Calls : l.tag[t].inDoc /\ l.tag[t].url = url}
  IN IF found = {} THEN 0
     ELSE CHOOSE t \in found : \A u \in found : t <= u

\* WebClient.loadFlexScript called by call number c: the promise is attempt c
loadFlexScript(l, c, url) ==
  LET existing == existingScript(l, url)
      l0 == [l EXCEPT !.attempt[c] =
               [url |-> url, st |-> "pending", err |-> "none", tag |-> 0,
                phase |-> "none", attempt |-> 0]]
  IN IF existing # 0
     THEN IF FlexIsFunction(l0)
          THEN resolveLoad([l0 EXCEPT !.loadedFlexScriptUrl = url,
                                      !.attempt[c].phase = "done"], c)
          ELSE [l0 EXCEPT !.attempt[c].tag = existing,
                          !.attempt[c].phase = "load"]
     ELSE [l0 EXCEPT !.tag[c] = [url |-> url, st |-> "loading",
                                 inDoc |-> TRUE, defined |-> FALSE],
                     !.attempt[c].tag = c,
                     !.attempt[c].phase = "load"]

\* WebClient.removeFlexScript
removeFlexScript(l) ==
  [l EXCEPT !.tag = [t \in Calls |-> [l.tag[t] EXCEPT !.inDoc = FALSE]],
            !.winFlex = "undefined"]

\* waitForLibrary without the reuse of the cached promise: every call
\* starts its own loadFlexScript
waitForLibraryLoadNoReuse(l, c, url) ==
  LET l1 == IF l.loadedFlexScriptUrl # "null" /\ l.loadedFlexScriptUrl # url
            THEN [removeFlexScript(l) EXCEPT !.flexLoadPromise = 0,
                                             !.loadedFlexScriptUrl = "null"]
            ELSE l
      l2 == [loadFlexScript(l1, c, url) EXCEPT !.flexLoadPromise = c]
      a == l2.flexLoadPromise
  IN [l2 EXCEPT !.caller[c] =
        [url |-> url, awaits |-> a,
         st |-> IF l2.attempt[a].st = "resolved" THEN "returned"
                ELSE IF l2.attempt[a].st = "rejected" THEN "threw"
                ELSE "awaiting"]]

\* the body of waitForLibrary after the already-loaded check
waitForLibraryLoad(l, c, url) ==
  LET l1 == IF l.loadedFlexScriptUrl # "null" /\ l.loadedFlexScriptUrl # url
            THEN [removeFlexScript(l) EXCEPT !.flexLoadPromise = 0,
                                             !.loadedFlexScriptUrl = "null"]
            ELSE l
      l2 == IF l1.flexLoadPromise = 0
            THEN [loadFlexScript(l1, c, url) EXCEPT !.flexLoadPromise = c]
            ELSE l1
      a == l2.flexLoadPromise
  IN [l2 EXCEPT !.caller[c] =
        [url |-> url, awaits |-> a,
         st |-> IF l2.attempt[a].st = "resolved" THEN "returned"
                ELSE IF l2.attempt[a].st = "rejected" THEN "threw"
                ELSE "awaiting"]]

LoaderInit ==
  /\ flexLoadPromise = 0
  /\ loadedFlexScriptUrl = "null"
  /\ winFlex = "undefined"
  /\ tag = [t \in Calls |-> NoTag]
  /\ attempt = [a \in Calls |-> NoAttempt]
  /\ caller = [c \in Calls |-> NoCaller]
  /\ calls = 0

(***************************************************************************)
(* FlexMicroform.tokenize (src/ui/flex-microform.ts lines 408-565).        *)
(* A string is the sequence of its characters.                             *)
(***************************************************************************)
DigitChars == {"0", "1", "2", "3", "4", "5", "6", "7", "8", "9"}

digitValue ==
  ("0" :> 0) @@ ("1" :> 1) @@ ("2" :> 2) @@ ("3" :> 3) @@ ("4" :> 4) @@
  ("5" :> 5) @@ ("6" :> 6) @@ ("7" :> 7) @@ ("8" :> 8) @@ ("9" :> 9)

\* the number NaN; no string of the model denotes a negative number
NaN == 0 - 1

\* parseInt(s, 10): the value of the longest prefix of digits, NaN if the
\* string does not start with a digit
RECURSIVE parseDigits(_, _)
parseDigits(s, acc) ==
  IF s = << >> \/ Head(s) \notin DigitChars THEN acc
  ELSE parseDigits(Tail(s), acc * 10 + digitValue[Head(s)])

parseInt(s) ==
  IF s = << >> \/ Head(s) \notin DigitChars THEN NaN ELSE parseDigits(s, 0)

\* Number.prototype.toString of a non-negative integer or NaN
RECURSIVE toString(_)
toString(n) ==
  IF n = NaN THEN <<"N", "a", "N">>
  ELSE IF n < 10 THEN <<CHOOSE c \in DigitChars : digitValue[c] = n>>
  ELSE Append(toString(n \div 10),
              CHOOSE c \in DigitChars : digitValue[c] = n % 10)

\* String.prototype.padStart(n, c) with a one-character fill string
padStart(s, n, c) ==
  IF Len(s) >= n THEN s ELSE [i \in 1..(n - Len(s)) |-> c] \o s

\* the month as it was given
monthUnpadded(expiryMonth) == expiryMonth

\* const month of doTokenize
month(expiryMonth) == padStart(expiryMonth, 2, "0")

\* let year of doTokenize; fullYear is new Date().getFullYear()
year(expiryYear, fullYear) ==
  IF Len(expiryYear) = 2
  THEN LET currentCentury == (fullYear \div 100) * 100
           yy == parseInt(expiryYear)
       IN toString(IF yy = NaN THEN NaN ELSE currentCentury + yy)
  ELSE expiryYear

NoOptions == [expirationMonth |-> << >>, expirationYear |-> << >>]

\* doTokenize without the validation of the month and of the year
doTokenizeUnvalidated(microformSet, expiryMonth, expiryYear, fullYear) ==
  IF ~ microformSet
  THEN [err |-> "Microform not initialized. Call initialize() first.",
        options |-> NoOptions]
  ELSE IF expiryMonth = << >> \/ expiryYear = << >>
  THEN [err |-> "Expiry month and year are required", options |-> NoOptions]
  ELSE [err |-> "none",
        options |-> [expirationMonth |-> month(expiryMonth),
                     expirationYear |-> year(expiryYear, fullYear)]]

\* the synchronous part of the executor of doTokenize: the error it rejects
\* with ("none" if it does not reject) and the options it hands to
\* microform.createToken
doTokenize(microformSet, expiryMonth, expiryYear, fullYear) ==
  LET monthNum == parseInt(month(expiryMonth))
      yearNum == parseInt(year(expiryYear, fullYear))
  IN IF ~ microformSet
     THEN [err |-> "Microform not initialized. Call initialize() first.",
           options |-> NoOptions]
     ELSE IF expiryMonth = << >> \/ expiryYear = << >>
     THEN [err |-> "Expiry month and year are required",
           options |-> NoOptions]
     ELSE IF monthNum # NaN /\ (monthNum < 1 \/ monthNum > 12)
     THEN [err |-> "Invalid expiry month. Must be between 01 and 12.",
           options |-> NoOptions]
     ELSE IF yearNum # NaN /\ yearNum < fullYear
     THEN [err |-> "Card has expired. Please use a valid card.",
           options |-> NoOptions]
     ELSE [err |-> "none",
           options |-> [expirationMonth |-> month(expiryMonth),
                        expirationYear |-> year(expiryYear, fullYear)]]

\* the error argument of the createToken callback: null, a string, or an
\* object with an optional reason and an optional message ("none": absent)
NoError == [isNull |-> TRUE, isString |-> FALSE, text |-> "none",
            reason |-> "none", message |-> "none"]

VendorErrors ==
  {NoError,
   [isNull |-> FALSE, isString |-> TRUE, text |-> "vendor text",
    reason |-> "none", message |-> "none"],
   [isNull |-> FALSE, isString |-> FALSE, text |-> "none",
    reason |-> "CREATE_TOKEN_VALIDATION_FIELDS", message |-> "vendor message"],
   [isNull |-> FALSE, isString |-> FALSE, text |-> "none",
    reason |-> "CREATE_TOKEN_TIMEOUT", message |-> "none"],
   [isNull |-> FALSE, isString |-> FALSE, text |-> "none",
    reason |-> "CREATE_TOKEN_NO_FIELDS", message |-> "vendor message"],
   [isNull |-> FALSE, isString |-> FALSE, text |-> "none",
    reason |-> "CREATE_TOKEN_NO_FIELDS", message |-> "none"]}

\* let errorMessage of the createToken callback
errorMessage(error) ==
  IF error.reason = "CREATE_TOKEN_VALIDATION_FIELDS"
  THEN "Please check your card details and try again"
  ELSE IF error.reason = "CREATE_TOKEN_TIMEOUT"
  THEN "Request timed out. Please try again."
  ELSE IF error.message # "none" THEN error.message
  ELSE IF error.isString THEN error.text
  ELSE "Tokenization failed"

(***************************************************************************)
(* A token is the sequence of its dot-separated segments (token.split).    *)
(* A segment is its length, whether it consists of base64url characters,   *)
(* whether the decoded text is JSON, and the card data of that JSON:       *)
(* number is whether content.paymentInformation.card.number is an object,  *)
(* detected is detectedCardTypes[0] ("none": no element, "nonString": an   *)
(* element that is not a string), typeName is card.type.name.              *)
(***************************************************************************)
NoCard == [number |-> FALSE, bin |-> "", suffix |-> "", detected |-> "none",
           typeName |-> "none"]

Seg(n, b, j, p) == [len |-> n, b64 |-> b, json |-> j, payload |-> p]

Card(b, s, d, t) ==
  [number |-> TRUE, bin |-> b, suffix |-> s, detected |-> d, typeName |-> t]

\* the token argument of the callback when it is undefined or null
NoToken == << >>

\* the empty string
EmptyToken == <<Seg(0, TRUE, FALSE, NoCard)>>

Tokens ==
  LET h == Seg(4, TRUE, TRUE, NoCard)
  IN {NoToken, EmptyToken,
      <<h>>, <<h, h>>, <<h, h, h, h>>,
      <<h, Seg(8, FALSE, FALSE, NoCard), h>>,
      <<h, Seg(5, TRUE, FALSE, NoCard), h>>,
      <<h, Seg(8, TRUE, FALSE, NoCard), h>>,
      <<h, Seg(8, TRUE, TRUE, NoCard), h>>,
      <<h, Seg(8, TRUE, TRUE, Card("411111", "1111", "VISA", "none")), h>>,
      <<h, Seg(6, TRUE, TRUE, Card("411111", "", "none", "MASTERCARD")), h>>,
      <<h, Seg(7, TRUE, TRUE, Card("", "1111", "none", "none")), h>>,
      <<h, Seg(8, TRUE, TRUE, Card("411111", "1111", "nonString", "none")), h>>,
      <<h, Seg(5, TRUE, TRUE, Card("411111", "1111", "VISA", "none")), h>>,
      <<h, Seg(8, TRUE, TRUE, [NoCard EXCEPT !.typeName = "VISA"]), h>>,
      <<h, Seg(8, TRUE, TRUE, Card("", "", "none", "none")), h>>,
      <<h, Seg(8, TRUE, TRUE, Card("411111", "1111", "none", "none")), h>>,
      <<h, Seg(8, TRUE, TRUE, Card("411111", "", "VISA", "MASTERCARD")), h>>,
      <<h, Seg(8, TRUE, TRUE, Card("", "1111", "none", "nonString")), h>>}

\* a masked PAN: bin, a number of bullets, suffix
Placeholder == [bin |-> "", bullets |-> 12, suffix |-> ""]

toLowerCase == ("VISA" :> "visa") @@ ("MASTERCARD" :> "mastercard")

\* a padding that appends as many characters as the expression asks for
paddedLengthUnclipped(n) == n + ((4 - (n % 4)) % 4)

\* the length of const padded: base64 + '=='.substring(0, (4 - n % 4) % 4)
paddedLength(n) ==
  LET k == (4 - (n % 4)) % 4 IN n + (IF k > 2 THEN 2 ELSE k)

\* a decoding that accepts every segment
decodeNeverThrows(seg) == FALSE

\* whether JSON.parse(atob(padded)) of a segment throws: atob throws on a
\* character outside the base64 alphabet and on a padded string whose
\* length is not a multiple of 4
decodeThrows(seg) ==
  \/ ~ seg.b64
  \/ paddedLength(seg.len) % 4 # 0
  \/ ~ seg.json

\* a decoding that prefers the card type name to the detected types
decodeTokenNameFirst(token) ==
  IF Len(token) # 3
  THEN [maskedPan |-> Placeholder, cardType |-> "unknown"]
  ELSE LET payload == token[2]
           card == payload.payload
           maskedPan ==
             IF ~ card.number THEN Placeholder
             ELSE IF card.bin # "" /\ card.suffix # ""
             THEN [bin |-> card.bin, bullets |-> 6, suffix |-> card.suffix]
             ELSE IF card.bin # ""
             THEN [bin |-> card.bin, bullets |-> 8, suffix |-> ""]
             ELSE IF card.suffix # ""
             THEN [bin |-> "", bullets |-> 8, suffix |-> card.suffix]
             ELSE Placeholder
           cardType ==
             IF card.typeName # "none" THEN toLowerCase[card.typeName]
             ELSE IF card.number /\ card.detected # "none"
             THEN toLowerCase[card.detected]
             ELSE "unknown"
           toLowerCaseThrows ==
             IF card.number /\ card.detected # "none"
             THEN card.detected = "nonString"
             ELSE card.typeName = "nonString"
       IN IF decodeThrows(payload) \/ toLowerCaseThrows
          THEN [maskedPan |-> Placeholder, cardType |-> "unknown"]
          ELSE [maskedPan |-> maskedPan, cardType |-> cardType]

\* FlexMicroform.decodeToken
decodeToken(token) ==
  IF Len(token) # 3
  THEN [maskedPan |-> Placeholder, cardType |-> "unknown"]
  ELSE LET payload == token[2]
           card == payload.payload
           maskedPan ==
             IF ~ card.number THEN Placeholder
             ELSE IF card.bin # "" /\ card.suffix # ""
             THEN [bin |-> card.bin, bullets |-> 6, suffix |-> card.suffix]
             ELSE IF card.bin # ""
             THEN [bin |-> card.bin, bullets |-> 8, suffix |-> ""]
             ELSE IF card.suffix # ""
             THEN [bin |-> "", bullets |-> 8, suffix |-> card.suffix]
             ELSE Placeholder
           cardType ==
             IF card.number /\ card.detected # "none"
             THEN toLowerCase[card.detected]
             ELSE IF card.typeName # "none" THEN toLowerCase[card.typeName]
             ELSE "unknown"
           toLowerCaseThrows ==
             IF card.number /\ card.detected # "none"
             THEN card.detected = "nonString"
             ELSE card.typeName = "nonString"
       IN IF decodeThrows(payload) \/ toLowerCaseThrows
          THEN [maskedPan |-> Placeholder, cardType |-> "unknown"]
          ELSE [maskedPan |-> maskedPan, cardType |-> cardType]

NoResult == [token |-> NoToken, maskedPan |-> Placeholder,
             cardType |-> "unknown", expiryMonth |-> << >>,
             expiryYear |-> << >>]

\* a promise of the adapter: pending, fulfilled with a result, or rejected
FmNone == [st |-> "none", err |-> "none", result |-> NoResult]

FmPending == [st |-> "pending", err |-> "none", result |-> NoResult]

FmResolved(r) == [st |-> "resolved", err |-> "none", result |-> r]

FmRejected(e) == [st |-> "rejected", err |-> e, result |-> NoResult]

\* the callback without the check of the token
createTokenCallbackUnchecked(error, token, options) ==
  IF ~ error.isNull THEN FmRejected(errorMessage(error))
  ELSE FmResolved([token |-> token,
                   maskedPan |-> decodeToken(token).maskedPan,
                   cardType |-> decodeToken(token).cardType,
                   expiryMonth |-> options.expirationMonth,
                   expiryYear |-> options.expirationYear])

\* the callback that doTokenize hands to microform.createToken: the
\* outcome for the promise of doTokenize
createTokenCallback(error, token, options) ==
  IF ~ error.isNull THEN FmRejected(errorMessage(error))
  ELSE IF token = NoToken \/ token = EmptyToken
  THEN FmRejected("No token received from CyberSource")
  ELSE LET tokenData == decodeToken(token)
       IN FmResolved([token |-> token,
                      maskedPan |-> tokenData.maskedPan,
                      cardType |-> tokenData.cardType,
                      expiryMonth |-> options.expirationMonth,
                      expiryYear |-> options.expirationYear])

(***************************************************************************)
(* FlexMicroform.withTimeout (lines 588-637), on a record w with the       *)
(* fields  promise  (the wrapped promise),  settled  (let settled),        *)
(* timer  (the timer is armed),  onAbort  (the abort listener is           *)
(* registered),  chained  (then/catch were attached to the wrapped         *)
(* promise) and  returned  (the promise that withTimeout returns).         *)
(* The signal is options.abortSignal: "undefined", "idle" or "aborted".    *)
(***************************************************************************)
TimedOut == "Flex operation timed out"

AbortError == "Flex operation aborted"

\* the callbacks given to promise.then(...).catch(...)
thenCatch(w) ==
  IF ~ w.chained \/ w.promise.st = "pending" \/ w.settled THEN w
  ELSE [w EXCEPT !.settled = TRUE, !.timer = FALSE, !.onAbort = FALSE,
                 !.returned = w.promise]

\* the callback of setTimeout
timerCallback(w) ==
  IF w.settled THEN [w EXCEPT !.timer = FALSE]
  ELSE [w EXCEPT !.timer = FALSE, !.settled = TRUE,
                 !.returned = FmRejected(TimedOut)]

\* const onAbort, registered with {once: true}
onAbort(w) ==
  IF w.settled THEN [w EXCEPT !.onAbort = FALSE]
  ELSE [w EXCEPT !.onAbort = FALSE, !.settled = TRUE, !.timer = FALSE,
                 !.returned = FmRejected(AbortError)]

\* withTimeout without cleanup() before the rejection for an aborted signal
withTimeoutTimerLeft(w, signal) ==
  LET w1 == [w EXCEPT !.settled = FALSE, !.timer = TRUE,
                      !.returned = FmPending]
  IN IF signal = "aborted"
     THEN [w1 EXCEPT !.returned = FmRejected(AbortError)]
     ELSE thenCatch([w1 EXCEPT !.onAbort = (signal = "idle"),
                               !.chained = TRUE])

\* the executor of the promise that withTimeout returns, followed by the
\* microtask of a wrapped promise that is already settled
withTimeout(w, signal) ==
  LET w1 == [w EXCEPT !.settled = FALSE, !.timer = TRUE,
                      !.returned = FmPending]
  IN IF signal = "aborted"
     THEN [w1 EXCEPT !.timer = FALSE, !.returned = FmRejected(AbortError)]
     ELSE thenCatch([w1 EXCEPT !.onAbort = (signal = "idle"),
                               !.chained = TRUE])

(***************************************************************************)
(* One adapter and its tokenize calls.  The successful end of              *)
(* doInitialize is one step that sets this.microform.                      *)
(***************************************************************************)
MonthInputs ==
  {<< >>, <<"0">>, <<"1">>, <<"1", "2">>, <<"1", "3">>, <<"0", "0", "7">>,
   <<"1", "x">>}

YearInputs ==
  {<< >>, <<"2", "4">>, <<"2", "9">>, <<"9", "9">>,
   <<"2", "0", "2", "4">>, <<"2", "0", "2", "5">>,
   <<"2", "0", "2", "5", "1">>}

\* values of new Date().getFullYear()
FullYears == {2025, 2099}

NoTokenization ==
  [st |-> "none", expiryMonth |-> << >>, expiryYear |-> << >>,
   fullYear |-> 0, createToken |-> "none", options |-> NoOptions,
   promise |-> FmNone, settled |-> FALSE, timer |-> FALSE,
   onAbort |-> FALSE, chained |-> FALSE, returned |-> FmNone]

TokenizeInit ==
  /\ constructed = FALSE
  /\ abortSignal = "undefined"
  /\ microform = FALSE
  /\ tokenization = [i \in Tokenizes |-> NoTokenization]
  /\ tokenizes = 0

\* new FlexMicroform(containerId, captureContext, options)
newFlexMicroform(signal) ==
  /\ ~ constructed
  /\ constructed' = TRUE
  /\ abortSignal' = signal
  /\ UNCHANGED <<microform, tokenization, tokenizes>>
  /\ UNCHANGED <<modalVars, collectorVars, loaderVars, decoding, flexVars, extraVars>>

\* doInitialize reaches this.microform = this.flex.microform()
initialized ==
  /\ constructed
  /\ ~ microform
  /\ microform' = TRUE
  /\ UNCHANGED <<constructed, abortSignal, tokenization, tokenizes>>
  /\ UNCHANGED <<modalVars, collectorVars, loaderVars, decoding, flexVars, extraVars>>

\* FlexMicroform.tokenize(expiryMonth, expiryYear): doTokenize runs first
\* (it is an argument of the call of withTimeout), then withTimeout
tokenize(expiryMonth, expiryYear, fullYear) ==
  /\ constructed
  /\ tokenizes < MaxTokenizes
  /\ tokenizes' = tokenizes + 1
  /\ LET d == doTokenize(microform, expiryMonth, expiryYear, fullYear)
         w == [NoTokenization EXCEPT
                 !.st = "called",
                 !.expiryMonth = expiryMonth,
                 !.expiryYear = expiryYear,
                 !.fullYear = fullYear,
                 !.createToken = IF d.err = "none" THEN "pending" ELSE "none",
                 !.options = d.options,
                 !.promise = IF d.err = "none" THEN FmPending
                             ELSE FmRejected(d.err)]
     IN tokenization' = [tokenization EXCEPT
                           ![tokenizes + 1] = withTimeout(w, abortSignal)]
  /\ UNCHANGED <<constructed, abortSignal, microform>>
  /\ UNCHANGED <<modalVars, collectorVars, loaderVars, decoding, flexVars, extraVars>>

\* the vendor calls the callback of the createToken call of tokenize
\* number i
createTokenReturns(i, error, token) ==
  /\ tokenization[i].createToken = "pending"
  /\ LET w == tokenization[i]
     IN tokenization' = [tokenization EXCEPT ![i] =
          thenCatch([w EXCEPT
                       !.createToken = "called",
                       !.promise = createTokenCallback(error, token,
                                                       w.options)])]
  /\ UNCHANGED <<constructed, abortSignal, microform, tokenizes>>
  /\ UNCHANGED <<modalVars, collectorVars, loaderVars, decoding, flexVars, extraVars>>

\* the timer of withTimeout of tokenize number i fires
tokenizeTimer(i) ==
  /\ tokenization[i].timer
  /\ tokenization' = [tokenization EXCEPT ![i] = timerCallback(@)]
  /\ UNCHANGED <<constructed, abortSignal, microform, tokenizes>>
  /\ UNCHANGED <<modalVars, collectorVars, loaderVars, decoding, flexVars, extraVars>>

\* the application aborts options.abortSignal: the 'abort' event runs the
\* registered onAbort listeners
abort ==
  /\ abortSignal = "idle"
  /\ abortSignal' = "aborted"
  /\ tokenization' = [i \in Tokenizes |->
                        IF tokenization[i].onAbort
                        THEN onAbort(tokenization[i])
                        ELSE tokenization[i]]
  /\ UNCHANGED <<constructed, microform, tokenizes>>
  /\ UNCHANGED <<modalVars, collectorVars, loaderVars, decoding, flexVars, extraVars>>

\* FlexMicroform.destroy, as far as tokenize can see it
fmDestroy ==
  /\ constructed
  /\ microform' = FALSE
  /\ UNCHANGED <<constructed, abortSignal, tokenization, tokenizes>>
  /\ UNCHANGED <<modalVars, collectorVars, loaderVars, decoding, flexVars, extraVars>>

(***************************************************************************)
(* decodeCaptureContext (src/utils/index.ts lines 32-80).  A capture       *)
(* context is the sequence of its dot-separated segments, like a token.    *)
(* The JSON of its middle segment is the form of ctx ("null": the JSON is  *)
(* null, "absent": no ctx, "emptyArray", "array", "object"), whether the   *)
(* ctx entry has a data object, and the clientLibrary and                  *)
(* clientLibraryIntegrity of that object ("none": no such field).          *)
(***************************************************************************)
CtxForms == {"null", "absent", "emptyArray", "array", "object"}

CtxPayloads ==
  [form : CtxForms, data : BOOLEAN, clientLibrary : {"none", "", "A"},
   clientLibraryIntegrity : {"none", "sha256-A"}]

NoCtx == [form |-> "absent", data |-> FALSE, clientLibrary |-> "none",
          clientLibraryIntegrity |-> "none"]

\* the empty string
EmptyContext == <<Seg(0, TRUE, FALSE, NoCtx)>>

CaptureContexts ==
  LET h == Seg(4, TRUE, TRUE, NoCtx)
  IN {EmptyContext, <<h>>, <<h, h>>, <<h, h, h, h>>}
     \cup {<<h, Seg(n, b, j, p), h>> :
             n \in {4, 5, 6, 7}, b \in BOOLEAN, j \in BOOLEAN, p \in CtxPayloads}

\* the data of the object form of ctx only
contextDataOfObject(decodedJson) ==
  IF decodedJson.form = "object" /\ decodedJson.data THEN decodedJson
  ELSE NoCtx

\* const contextData; "undefined" is the record without data
contextData(decodedJson) ==
  IF decodedJson.form \in {"array", "object"} /\ decodedJson.data
  THEN decodedJson
  ELSE NoCtx

DecodeError(e) ==
  [err |-> e, clientLibrary |-> "none", clientLibraryIntegrity |-> "none"]

\* decodeCaptureContext: the message of the error it throws ("none" if it
\* returns) and the clientLibrary and clientLibraryIntegrity it returns
decodeCaptureContext(captureContext) ==
  IF captureContext = EmptyContext
  THEN DecodeError("Capture context is required")
  ELSE IF Len(captureContext) # 3
  THEN DecodeError("Invalid capture context format - expected JWT with 3 parts")
  ELSE LET payload == captureContext[2]
           decodedJson == payload.payload
           clientLibrary == contextData(decodedJson).clientLibrary
       IN IF decodeThrows(payload) \/ decodedJson.form = "null"
          THEN DecodeError("Failed to decode capture context")
          ELSE IF clientLibrary \in {"none", ""}
          THEN DecodeError("clientLibrary not found in capture context")
          ELSE [err |-> "none",
                clientLibrary |-> clientLibrary,
                clientLibraryIntegrity |->
                  contextData(decodedJson).clientLibraryIntegrity]

NoDecode == [st |-> "none", captureContext |-> EmptyContext,
             result |-> DecodeError("none")]

DecodeInit == decoding = NoDecode

\* a call of decodeCaptureContext
decode(captureContext) ==
  /\ decoding' = [st |-> "called", captureContext |-> captureContext,
                  result |-> decodeCaptureContext(captureContext)]
  /\ UNCHANGED <<modalVars, collectorVars, loaderVars, tokenizeVars, flexVars, extraVars>>

(***************************************************************************)
(* WebClient.setupFlexMicroform / destroy (part_004 lines 300-332,         *)
(* 384-399) and FlexMicroform.initialize / destroy (flex-microform.ts      *)
(* lines 29-330, 642-669).  The adapter created by the setupFlexMicroform  *)
(* call that made waitForLibrary call number c carries the number c.       *)
(***************************************************************************)
\* the elements of the host page that are given as containerId, in
\* document order
Containers == {1, 2}

FieldTypes == {"cardNumber", "securityCode"}

\* the object that doInitialize returns
Handle == [tokenize |-> TRUE, on |-> TRUE, destroy |-> TRUE, isValid |-> TRUE]

\* a capture context whose payload names the client library url
ContextFor(url) ==
  <<Seg(4, TRUE, TRUE, NoCtx),
    Seg(8, TRUE, TRUE, [form |-> "array", data |-> TRUE, clientLibrary |-> url,
                        clientLibraryIntegrity |-> "none"]),
    Seg(4, TRUE, TRUE, NoCtx)>>

SetupContexts == {ContextFor(u) : u \in Urls} \cup {EmptyContext}

NoSetup == [st |-> "none", err |-> "none"]

NoAdapter ==
  [st |-> "none", containerId |-> 0, signal |-> "undefined",
   destroyed |-> FALSE, styleElement |-> FALSE, flex |-> FALSE,
   microform |-> FALSE, fields |-> {}, stage |-> "none", created |-> << >>,
   field |-> [t \in FieldTypes |-> "none"],
   loadField |-> [t \in FieldTypes |-> "none"],
   promise |-> FmNone, settled |-> FALSE, timer |-> FALSE,
   onAbort |-> FALSE, chained |-> FALSE, returned |-> FmNone]

FlexState ==
  [flexMicroform |-> flexMicroform, adapter |-> adapter, setup |-> setup,
   hostContent |-> hostContent, docStyles |-> docStyles, mounted |-> mounted]

SetFlexState(f) ==
  /\ flexMicroform' = f.flexMicroform
  /\ adapter' = f.adapter
  /\ setup' = f.setup
  /\ hostContent' = f.hostContent
  /\ docStyles' = f.docStyles
  /\ mounted' = f.mounted

\* FlexMicroform.destroy of adapter a
destroyAdapter(f, a) ==
  LET x == f.adapter[a]
      removed == {<<a, t>> : t \in x.fields}
      f1 == [f EXCEPT !.mounted = [h \in Containers |-> f.mounted[h] \ removed],
                      !.docStyles = IF x.styleElement THEN @ \ {a} ELSE @]
  IN [f1 EXCEPT !.adapter[a].fields = {},
                !.adapter[a].styleElement = FALSE,
                !.hostContent[x.containerId] = 0,
                !.mounted[x.containerId] = {},
                !.adapter[a].microform = FALSE,
                !.adapter[a].flex = FALSE,
                !.adapter[a].destroyed = TRUE]

\* doInitialize ends: the promise of doInitialize settles and the callbacks
\* of withTimeout run
settleInitialize(f, a, outcome) ==
  IF f.adapter[a].promise.st # "pending" THEN f
  ELSE [f EXCEPT !.adapter[a] = thenCatch([@ EXCEPT !.promise = outcome])]

\* FlexMicroform.initialize up to await this.waitForDom(): doInitialize runs
\* first (it is an argument of the call of withTimeout), then withTimeout
initialize(f, a, flexIsFunction) ==
  LET x == f.adapter[a]
      thrown == IF x.signal = "aborted" THEN AbortError
                ELSE IF ~ flexIsFunction
                THEN "Flex SDK not available. Ensure the Flex script is loaded before initialization."
                ELSE "none"
      f1 == IF thrown # "none"
            THEN [f EXCEPT !.adapter[a].promise = FmRejected(thrown)]
            ELSE [f EXCEPT !.hostContent[x.containerId] = a,
                           !.mounted[x.containerId] = {},
                           !.adapter[a].styleElement = TRUE,
                           !.docStyles = @ \cup {a},
                           !.adapter[a].stage = "waitForDom",
                           !.adapter[a].promise = FmPending]
  IN [f1 EXCEPT !.adapter[a] = withTimeout(@, x.signal)]

\* setupFlexMicroform after await this.waitForLibrary(...)
setupContinue(f, c, loadError, flexIsFunction) ==
  IF loadError # "none"
  THEN [f EXCEPT !.setup[c] = [st |-> "threw", err |-> loadError]]
  ELSE IF ~ flexIsFunction
  THEN [f EXCEPT !.setup[c] =
          [st |-> "threw",
           err |-> "Flex SDK not available after loading. Please try refreshing the page."]]
  ELSE LET f1 == IF f.flexMicroform # 0
                 THEN destroyAdapter(f, f.flexMicroform)
                 ELSE f
           f2 == [f1 EXCEPT !.flexMicroform = c,
                            !.adapter[c].st = "created",
                            !.setup[c] = [st |-> "returned", err |-> "none"]]
       IN initialize(f2, c, flexIsFunction)

\* the microtasks that resume the setupFlexMicroform calls whose
\* waitForLibrary call has ended, in the order of the calls
RECURSIVE resumeSetups(_, _, _)
resumeSetups(f, l, cs) ==
  IF cs = {} THEN f
  ELSE LET c == CHOOSE x \in cs : \A y \in cs : x <= y
           a == l.caller[c].awaits
           loadError == IF l.caller[c].st = "threw" THEN l.attempt[a].err
                        ELSE "none"
       IN resumeSetups(setupContinue(f, c, loadError, FlexIsFunction(l)),
                       l, cs \ {c})

\* the setupFlexMicroform calls that a step of the loader resumes
Resumed(l) ==
  {c \in Calls : setup[c].st = "awaiting"
                 /\ l.caller[c].st \in {"returned", "threw"}}

\* the microtasks after a step of the loader
resumeAfterLoad ==
  SetFlexState(resumeSetups(FlexState, LoaderState', Resumed(LoaderState')))

(***************************************************************************)
(* Script loader: the actions.  A step that settles a load attempt is      *)
(* followed, in the same task, by the microtasks of the callers.           *)
(***************************************************************************)
\* WebClient.waitForLibrary(clientLibrary), called by setupFlexMicroform
waitForLibrary(url) ==
  /\ calls < MaxCalls
  /\ calls' = calls + 1
  /\ LET c == calls + 1
         l == LoaderState
     IN IF FlexIsFunction(l) /\ l.loadedFlexScriptUrl = url
        THEN SetLoaderState([l EXCEPT !.caller[c] =
               [url |-> url, st |-> "returned", awaits |-> 0]])
        ELSE SetLoaderState(waitForLibraryLoad(l, c, url))
  /\ UNCHANGED flexVars
  /\ UNCHANGED <<modalVars, collectorVars, tokenizeVars, decoding, extraVars>>

\* the load handlers of script element t, in registration order
RECURSIVE runLoadHandlers(_, _, _)
runLoadHandlers(l, t, as) ==
  IF as = {} THEN l
  ELSE LET a == CHOOSE x \in as : \A y \in as : x <= y
       IN runLoadHandlers(waitForFlexConstructor(l, a), t, as \ {a})

\* the error handlers of script element t: script.onerror of the attempt
\* that created it, the 'error' listener of an attempt that reused it
RECURSIVE runErrorHandlers(_, _, _)
runErrorHandlers(l, t, as) ==
  IF as = {} THEN l
  ELSE LET a == CHOOSE x \in as : \A y \in as : x <= y
           l1 == IF a = t
                 THEN rejectLoad([l EXCEPT !.flexLoadPromise = 0,
                                           !.attempt[a].phase = "done"],
                                 a, LoadError)
                 ELSE rejectLoad([l EXCEPT !.attempt[a].phase = "done"],
                                 a, ExistingLoadError)
       IN runErrorHandlers(l1, t, as \ {a})

Listening(t) == {a \in Calls : attempt[a].tag = t /\ attempt[a].phase = "load"}

\* the fetch of script element t succeeds: the script runs (and may define
\* window.Flex at once), then the 'load' event is fired
scriptLoad(t, defines) ==
  /\ tag[t].st = "loading"
  /\ LET l == LoaderState
         l1 == [l EXCEPT !.tag[t].st = "loaded",
                         !.tag[t].defined = defines,
                         !.winFlex = IF defines THEN l.tag[t].url ELSE @]
     IN SetLoaderState(runLoadHandlers(l1, t, Listening(t)))
  /\ UNCHANGED calls
  /\ resumeAfterLoad
  /\ UNCHANGED <<modalVars, collectorVars, tokenizeVars, decoding, extraVars>>

\* the fetch of script element t fails: the 'error' event is fired
scriptError(t) ==
  /\ tag[t].st = "loading"
  /\ SetLoaderState(runErrorHandlers([LoaderState EXCEPT !.tag[t].st = "failed"],
                                     t, Listening(t)))
  /\ UNCHANGED calls
  /\ resumeAfterLoad
  /\ UNCHANGED <<modalVars, collectorVars, tokenizeVars, decoding, extraVars>>

\* a loaded script that did not define window.Flex when it ran defines it
\* later (asynchronous initialisation of the vendor library)
flexAppears(t) ==
  /\ tag[t].st = "loaded"
  /\ ~ tag[t].defined
  /\ tag' = [tag EXCEPT ![t].defined = TRUE]
  /\ winFlex' = tag[t].url
  /\ UNCHANGED <<flexLoadPromise, loadedFlexScriptUrl, attempt, caller, calls>>
  /\ UNCHANGED flexVars
  /\ UNCHANGED <<modalVars, collectorVars, tokenizeVars, decoding, extraVars>>

\* sleep(intervalMs) of the poll loop of attempt a ends: attempt++, then
\* the next iteration, or the rejection after the loop
pollTick(a) ==
  /\ attempt[a].phase = "poll"
  /\ LET l == LoaderState
         i == attempt[a].attempt + 1
     IN IF i < maxAttempts
        THEN SetLoaderState(flexCheck(l, a, i))
        ELSE SetLoaderState(rejectLoad([l EXCEPT !.attempt[a].phase = "done",
                                                 !.attempt[a].attempt = i],
                                       a, LoadTimeoutError))
  /\ UNCHANGED calls
  /\ resumeAfterLoad
  /\ UNCHANGED <<modalVars, collectorVars, tokenizeVars, decoding, extraVars>>

\* WebClient.resetFlexSDK
resetFlexSDK ==
  /\ SetLoaderState([removeFlexScript(LoaderState) EXCEPT
                       !.flexLoadPromise = 0,
                       !.loadedFlexScriptUrl = "null"])
  /\ UNCHANGED calls
  /\ UNCHANGED flexVars
  /\ UNCHANGED <<modalVars, collectorVars, tokenizeVars, decoding, extraVars>>

FlexInit ==
  /\ flexMicroform = 0
  /\ adapter = [a \in Calls |-> NoAdapter]
  /\ setup = [c \in Calls |-> NoSetup]
  /\ hostContent = [h \in Containers |-> 0]
  /\ docStyles = {}
  /\ mounted = [h \in Containers |-> {}]

\* WebClient.setupFlexMicroform(containerId, captureContext, options) up to
\* its first suspension; signal is options.abortSignal
setupFlexMicroform(containerId, captureContext, signal) ==
  /\ calls < MaxCalls
  /\ LET dec == decodeCaptureContext(captureContext)
         c == calls + 1
         l0 == LoaderState
         l1 == IF FlexIsFunction(l0) /\ l0.loadedFlexScriptUrl = dec.clientLibrary
               THEN [l0 EXCEPT !.caller[c] = [url |-> dec.clientLibrary,
                                              st |-> "returned", awaits |-> 0]]
               ELSE waitForLibraryLoad(l0, c, dec.clientLibrary)
         f0 == [FlexState EXCEPT
                  !.setup[c] = [st |-> "awaiting", err |-> "none"],
                  !.adapter[c].containerId = containerId,
                  !.adapter[c].signal = signal]
     IN IF dec.err # "none"
        THEN UNCHANGED <<loaderVars, flexVars>>
        ELSE /\ calls' = c
             /\ SetLoaderState(l1)
             /\ SetFlexState(IF l1.caller[c].st = "awaiting" THEN f0
                             ELSE resumeSetups(f0, l1, {c}))
  /\ UNCHANGED <<modalVars, collectorVars, tokenizeVars, decoding, extraVars>>

\* createFields: microform.createField twice, then loadField for both
\* fields; thrower is the field whose load() throws
createFields(f, a, target, thrower) ==
  LET f1 == [f EXCEPT
               !.adapter[a].created = <<"number", "securityCode">>,
               !.adapter[a].field =
                 [t \in FieldTypes |-> IF t = thrower THEN "failed"
                                       ELSE "loading"],
               !.adapter[a].loadField =
                 [t \in FieldTypes |-> IF t = thrower THEN "rejected"
                                       ELSE "pending"],
               !.mounted[target] =
                 @ \cup {<<a, t>> : t \in FieldTypes \ {thrower}}]
  IN IF thrower \in FieldTypes
     THEN settleInitialize(f1, a, FmRejected("Failed to load field"))
     ELSE f1

\* the second requestAnimationFrame callback of waitForDom runs: doInitialize
\* of adapter a goes on after the await; vendor is what the vendor library
\* does in new Flex(...) and flex.microform()
domReady(a, vendor, thrower) ==
  /\ adapter[a].stage = "waitForDom"
  /\ LET f == [FlexState EXCEPT !.adapter[a].stage = "done"]
         hosts == {h \in Containers : f.hostContent[h] # 0}
         target == CHOOSE h \in hosts : \A g \in hosts : h <= g
     IN SetFlexState(
          IF hosts = {}
          THEN settleInitialize(f, a,
                 FmRejected("Failed to create field containers"))
          ELSE IF vendor = "constructorThrows"
          THEN settleInitialize(f, a,
                 FmRejected("Failed to create Flex instance"))
          ELSE IF vendor = "noMicroform"
          THEN settleInitialize([f EXCEPT !.adapter[a].flex = TRUE], a,
                 FmRejected("Flex instance missing microform() method."))
          ELSE IF vendor = "microformThrows"
          THEN settleInitialize([f EXCEPT !.adapter[a].flex = TRUE], a,
                 FmRejected("Failed to create microform"))
          ELSE createFields([f EXCEPT !.adapter[a].flex = TRUE,
                                      !.adapter[a].microform = TRUE],
                            a, target, thrower))
  /\ UNCHANGED <<modalVars, collectorVars, loaderVars, tokenizeVars, decoding, extraVars>>

\* the iframe of field t of adapter a is in the document
Mounted(a, t) == \E h \in Containers : <<a, t>> \in mounted[h]

\* the vendor reports 'load' of field t of adapter a
fieldLoad(a, t) ==
  /\ adapter[a].field[t] = "loading"
  /\ Mounted(a, t)
  /\ LET f == [FlexState EXCEPT
                 !.adapter[a].field[t] = "loaded",
                 !.adapter[a].fields = @ \cup {t},
                 !.adapter[a].loadField[t] =
                   IF @ = "pending" THEN "resolved" ELSE @]
     IN SetFlexState(
          IF \A u \in FieldTypes : f.adapter[a].loadField[u] = "resolved"
          THEN settleInitialize(f, a, FmResolved(Handle))
          ELSE f)
  /\ UNCHANGED <<modalVars, collectorVars, loaderVars, tokenizeVars, decoding, extraVars>>

\* the vendor reports 'error' of field t of adapter a, which has not loaded
fieldError(a, t) ==
  /\ adapter[a].field[t] = "loading"
  /\ Mounted(a, t)
  /\ SetFlexState(settleInitialize(
       [FlexState EXCEPT !.adapter[a].field[t] = "failed",
                         !.adapter[a].loadField[t] =
                           IF @ = "pending" THEN "rejected" ELSE @],
       a, FmRejected("Failed to load field")))
  /\ UNCHANGED <<modalVars, collectorVars, loaderVars, tokenizeVars, decoding, extraVars>>

\* the timer of withTimeout of initialize of adapter a fires
initializeTimer(a) ==
  /\ adapter[a].timer
  /\ adapter' = [adapter EXCEPT ![a] = timerCallback(@)]
  /\ UNCHANGED <<flexMicroform, setup, hostContent, docStyles, mounted>>
  /\ UNCHANGED <<modalVars, collectorVars, loaderVars, tokenizeVars, decoding, extraVars>>

\* the application aborts the abortSignal given to setup call a
abortInitialize(a) ==
  /\ adapter[a].signal = "idle"
  /\ adapter' = [adapter EXCEPT ![a] =
       [(IF @.onAbort THEN onAbort(@) ELSE @) EXCEPT !.signal = "aborted"]]
  /\ UNCHANGED <<flexMicroform, setup, hostContent, docStyles, mounted>>
  /\ UNCHANGED <<modalVars, collectorVars, loaderVars, tokenizeVars, decoding, extraVars>>

\* WebClient.destroy that also purges the script
webClientDestroyResetting ==
  /\ SetCollectorState(ddCleanup(CollectorState))
  /\ UNCHANGED <<ddTimers, collects>>
  /\ SetModalState(challengeModalDestroy(ModalState))
  /\ UNCHANGED <<submitted, opts, shows>>
  /\ SetFlexState(IF flexMicroform # 0
                  THEN [destroyAdapter(FlexState, flexMicroform)
                          EXCEPT !.flexMicroform = 0]
                  ELSE FlexState)
  /\ SetLoaderState([removeFlexScript(LoaderState) EXCEPT
                       !.flexLoadPromise = 0,
                       !.loadedFlexScriptUrl = "null"])
  /\ UNCHANGED <<calls, tokenizeVars, decoding, extraVars>>

\* WebClient.destroy
webClientDestroy ==
  /\ SetCollectorState(ddCleanup(CollectorState))
  /\ UNCHANGED <<ddTimers, collects>>
  /\ SetModalState(challengeModalDestroy(ModalState))
  /\ UNCHANGED <<submitted, opts, shows>>
  /\ SetFlexState(IF flexMicroform # 0
                  THEN [destroyAdapter(FlexState, flexMicroform)
                          EXCEPT !.flexMicroform = 0]
                  ELSE FlexState)
  /\ UNCHANGED <<loaderVars, tokenizeVars, decoding, extraVars>>

(***************************************************************************)
(* The delay of the timers of DeviceDataCollector.collect                  *)
(* (device-data-collector.ts line 20) and ChallengeModal.show (part_002    *)
(* line 34).  The options are DeviceDataOptions / ChallengeModalOptions    *)
(* (part_004 lines 93-96, 111-118): timeoutMs and timeout, each a number   *)
(* of milliseconds or undefined.                                           *)
(***************************************************************************)
\* the value of an option: undefined, or a number
Undefined == [defined |-> FALSE, ms |-> 0]

Ms(n) == [defined |-> TRUE, ms |-> n]

DelayValues == {Undefined} \cup {Ms(n) : n \in {0, 250, 5000}}

DelayOptions == [timeoutMs : DelayValues, timeout : DelayValues]

\* a value is truthy: the left operand of || is taken
Truthy(v) == v.defined /\ v.ms # 0

collectDefaultTimeout == 10000

showDefaultTimeout == 10 * 60 * 1000

\* const timeout = options?.timeout || 10000
collectTimeout(options) ==
  IF Truthy(options.timeout) THEN options.timeout.ms
  ELSE collectDefaultTimeout

\* const timeout = options?.timeout || 10 * 60 * 1000
showTimeout(options) ==
  IF Truthy(options.timeout) THEN options.timeout.ms ELSE showDefaultTimeout

NoDelay == [called |-> FALSE,
            options |-> [timeoutMs |-> Undefined, timeout |-> Undefined],
            ms |-> 0]

DelayInit == timerDelay = [collect |-> NoDelay, show |-> NoDelay]

\* collect(url, token, options) arms its timer: setTimeout(..., timeout)
collectSetTimeout(options) ==
  /\ timerDelay' = [timerDelay EXCEPT !.collect =
       [called |-> TRUE, options |-> options, ms |-> collectTimeout(options)]]
  /\ UNCHANGED <<modalVars, collectorVars, loaderVars, tokenizeVars, decoding,
                 flexVars, legacyModal, legacyWait>>

\* show(url, token, options) arms its timer: setTimeout(..., timeout)
showSetTimeout(options) ==
  /\ timerDelay' = [timerDelay EXCEPT !.show =
       [called |-> TRUE, options |-> options, ms |-> showTimeout(options)]]
  /\ UNCHANGED <<modalVars, collectorVars, loaderVars, tokenizeVars, decoding,
                 flexVars, legacyModal, legacyWait>>

(***************************************************************************)
(* The older ChallengeModal (part_002 lines 233-405): no isResolved flag,  *)
(* the timer id is a local constant of show() that nothing clears.  The    *)
(* controller and the part of the page it touches are the record           *)
(* legacyModal; its fields carry the names of the instance fields.         *)
(***************************************************************************)
LegacyTimeoutError == "Challenge timeout"

LegacyClosedError == "Challenge modal closed manually"

\* resolve / reject of the promise of show() number s
legacySettle(m, s, outcome) ==
  [m EXCEPT !.promise[s] = IF @.st = "pending" THEN outcome ELSE @]

\* ChallengeModal.cleanup (lines 380-397)
legacyCleanup(m) ==
  [m EXCEPT !.winListeners = RemoveListener(@, m.messageListener),
            !.messageListener = NoSession,
            !.docOverlays = @ \ {m.overlay},
            !.overlay = NoSession,
            !.docForms = @ \ {m.form},
            !.form = NoSession]

\* window.removeEventListener('message', this.messageListener!);
\* this.currentReject = null; this.cleanup()
legacyTeardown(m) ==
  legacyCleanup([m EXCEPT
                   !.winListeners = RemoveListener(@, m.messageListener),
                   !.currentReject = NoSession])

\* the message listener created by show() number s (lines 316-340)
legacyListenerCall(m, s, data) ==
  IF Accepts(m.opts[s], data)
  THEN legacySettle(legacyTeardown(m), s, Resolved(data))
  ELSE m

\* the timer callback of show() number s (lines 349-355)
legacyTimeout(m, s) ==
  legacySettle(legacyTeardown(m), s, Rejected(LegacyTimeoutError))

RECURSIVE legacyDispatch(_, _, _)
legacyDispatch(m, snapshot, data) ==
  IF snapshot = << >> THEN m
  ELSE LET l == Head(snapshot)
           still == \E i \in 1..Len(m.winListeners) : m.winListeners[i] = l
       IN legacyDispatch(IF still THEN legacyListenerCall(m, l, data) ELSE m,
                         Tail(snapshot), data)

LegacyInit ==
  legacyModal =
    [overlay |-> NoSession, form |-> NoSession, messageListener |-> NoSession,
     currentReject |-> NoSession, docOverlays |-> {}, docForms |-> {},
     winListeners |-> << >>, timers |-> {},
     promise |-> [s \in Sessions |-> NotCreated],
     opts |-> [s \in Sessions |-> [type |-> "none", transactionId |-> "none"]],
     shows |-> 0]

\* show(stepUpUrl, accessToken, options) (lines 245-357)
legacyShow(o) ==
  /\ legacyModal.shows < MaxShows
  /\ LET s == legacyModal.shows + 1
     IN legacyModal' = [legacyModal EXCEPT
          !.shows = s,
          !.opts[s] = o,
          !.currentReject = s,
          !.overlay = s,
          !.docOverlays = @ \cup {s},
          !.form = s,
          !.docForms = @ \cup {s},
          !.messageListener = s,
          !.winListeners = Append(@, s),
          !.timers = @ \cup {s},
          !.promise[s] = Pending]
  /\ UNCHANGED <<modalVars, collectorVars, loaderVars, tokenizeVars, decoding,
                 flexVars, timerDelay, legacyWait>>

\* a 'message' event is dispatched on window
legacyWindowMessage(data) ==
  /\ legacyModal' = legacyDispatch(legacyModal, legacyModal.winListeners, data)
  /\ UNCHANGED <<modalVars, collectorVars, loaderVars, tokenizeVars, decoding,
                 flexVars, timerDelay, legacyWait>>

\* the setTimeout callback of show() number s runs
legacyTimerFire(s) ==
  /\ s \in legacyModal.timers
  /\ legacyModal' = legacyTimeout([legacyModal EXCEPT !.timers = @ \ {s}], s)
  /\ UNCHANGED <<modalVars, collectorVars, loaderVars, tokenizeVars, decoding,
                 flexVars, timerDelay, legacyWait>>

\* close() (lines 362-368)
legacyClose ==
  /\ LET m == legacyModal
         m1 == IF m.currentReject # NoSession
               THEN [legacySettle(m, m.currentReject,
                                  Rejected(LegacyClosedError))
                       EXCEPT !.currentReject = NoSession]
               ELSE m
     IN legacyModal' = legacyCleanup(m1)
  /\ UNCHANGED <<modalVars, collectorVars, loaderVars, tokenizeVars, decoding,
                 flexVars, timerDelay, legacyWait>>

\* destroy() (lines 402-404)
legacyDestroy ==
  /\ legacyModal' = legacyCleanup(legacyModal)
  /\ UNCHANGED <<modalVars, collectorVars, loaderVars, tokenizeVars, decoding,
                 flexVars, timerDelay, legacyWait>>

(***************************************************************************)
(* The older WebClient.waitForLibrary (part_004 lines 439-449).  A call    *)
(* keeps maxRetries and retries as locals and reads window.FLEX and        *)
(* window.Flex, which the script defines.  pc is "waiting" while the       *)
(* call awaits its setTimeout, "resolved" or "rejected" once the promise   *)
(* of the call has settled.                                                *)
(***************************************************************************)
legacyMaxRetries == 50

MaxRetriesValues == {0, 1, 2, legacyMaxRetries}

LegacyLoadError ==
  "Flex SDK failed to load. Please check your browser console for network errors."

Globals == {"FLEX", "Flex"}

\* (window as any).FLEX || (window as any).Flex
globalDefined(w) == w.FLEX \/ w.Flex

\* the loop without the check of the globals after it
legacyLoopNoRecheck(w) ==
  IF ~ globalDefined(w) /\ w.retries < w.maxRetries
  THEN [w EXCEPT !.pc = "waiting"]
  ELSE IF w.retries >= w.maxRetries
  THEN [w EXCEPT !.pc = "rejected", !.err = LegacyLoadError]
  ELSE [w EXCEPT !.pc = "resolved"]

\* the while condition and, when it is false, the check after the loop
legacyLoop(w) ==
  IF ~ globalDefined(w) /\ w.retries < w.maxRetries
  THEN [w EXCEPT !.pc = "waiting"]
  ELSE IF ~ globalDefined(w)
  THEN [w EXCEPT !.pc = "rejected", !.err = LegacyLoadError]
  ELSE [w EXCEPT !.pc = "resolved"]

LegacyWaitInit ==
  legacyWait = [pc |-> "idle", maxRetries |-> 0, retries |-> 0,
                err |-> "none", FLEX |-> FALSE, Flex |-> FALSE]

\* a call of waitForLibrary(maxRetries), up to its first await
legacyWaitForLibrary(maxRetries) ==
  /\ legacyWait.pc # "waiting"
  /\ legacyWait' = legacyLoop([legacyWait EXCEPT !.maxRetries = maxRetries,
                                                 !.retries = 0,
                                                 !.err = "none"])
  /\ UNCHANGED <<modalVars, collectorVars, loaderVars, tokenizeVars, decoding,
                 flexVars, timerDelay, legacyModal>>

\* the setTimeout of the awaited promise fires: retries++ and the loop
\* condition again
legacyWaitTimer ==
  /\ legacyWait.pc = "waiting"
  /\ legacyWait' = legacyLoop([legacyWait EXCEPT !.retries = @ + 1])
  /\ UNCHANGED <<modalVars, collectorVars, loaderVars, tokenizeVars, decoding,
                 flexVars, timerDelay, legacyModal>>

\* the Flex script runs and defines one of the globals
legacyScriptDefines(g) ==
  /\ ~ legacyWait[g]
  /\ legacyWait' = [legacyWait EXCEPT ![g] = TRUE]
  /\ UNCHANGED <<modalVars, collectorVars, loaderVars, tokenizeVars, decoding,
                 flexVars, timerDelay, legacyModal>>

(***************************************************************************)
(* Specifications.  Each component is explored on its own; Spec is their   *)
(* interleaving in one page.                                               *)
(***************************************************************************)
Init == ModalInit /\ CollectorInit /\ LoaderInit /\ TokenizeInit
        /\ DecodeInit /\ FlexInit /\ DelayInit /\ LegacyInit
        /\ LegacyWaitInit

ModalNext ==
  \/ \E t \in TypeOptions, x \in TxnOptions :
        show([type |-> t, transactionId |-> x])
  \/ \E d \in MsgData : windowMessage(d)
  \/ \E s \in Sessions : timerFire(s)
  \/ close
  \/ destroy

CollectorNext ==
  \/ collect
  \/ \E o \in Origins : ddWindowMessage(o)
  \/ \E k \in Collects : ddTimerFire(k)
  \/ ddDestroy

LoaderNext ==
  \/ \E u \in Urls : waitForLibrary(u)
  \/ \E t \in Calls, d \in BOOLEAN : scriptLoad(t, d)
  \/ \E t \in Calls : scriptError(t)
  \/ \E t \in Calls : flexAppears(t)
  \/ \E a \in Calls : pollTick(a)
  \/ resetFlexSDK

TokenizeNext ==
  \/ \E g \in {"undefined", "idle"} : newFlexMicroform(g)
  \/ initialized
  \/ \E m \in MonthInputs, y \in YearInputs, n \in FullYears : tokenize(m, y, n)
  \/ \E i \in Tokenizes, e \in VendorErrors, t \in Tokens :
        createTokenReturns(i, e, t)
  \/ \E i \in Tokenizes : tokenizeTimer(i)
  \/ abort
  \/ fmDestroy

DecodeNext == \E c \in CaptureContexts : decode(c)

\* WebClient.setupFlexMicroform with the script loader, for applications that
\* give no abort signal and whose vendor library works
FacadeNext ==
  \/ \E h \in Containers, c \in SetupContexts : setupFlexMicroform(h, c, "undefined")
  \/ \E t \in Calls, d \in BOOLEAN : scriptLoad(t, d)
  \/ \E t \in Calls : scriptError(t)
  \/ resetFlexSDK
  \/ \E a \in Calls : domReady(a, "ok", "none")
  \/ \E a \in Calls, t \in FieldTypes : fieldLoad(a, t)
  \/ webClientDestroy

\* FlexMicroform.initialize with every end of it, for one client library
\* whose script defines window.Flex when it runs
AdapterNext ==
  \/ \E h \in Containers, g \in {"undefined", "idle", "aborted"} :
        setupFlexMicroform(h, ContextFor("A"), g)
  \/ \E t \in Calls : scriptLoad(t, TRUE)
  \/ \E a \in Calls,
        v \in {"ok", "constructorThrows", "noMicroform", "microformThrows"},
        x \in FieldTypes \cup {"none"} : domReady(a, v, x)
  \/ \E a \in Calls, t \in FieldTypes : fieldLoad(a, t)
  \/ \E a \in Calls, t \in FieldTypes : fieldError(a, t)
  \/ \E a \in Calls : initializeTimer(a)
  \/ \E a \in Calls : abortInitialize(a)
  \/ webClientDestroy

\* one WebClient in a page: challenge, device data, card fields and teardown
WebClientNext ==
  \/ show([type |-> "none", transactionId |-> "none"])
  \/ collect
  \/ \E u \in Urls : setupFlexMicroform(1, ContextFor(u), "undefined")
  \/ \E t \in Calls : scriptLoad(t, TRUE)
  \/ \E a \in Calls : domReady(a, "ok", "none")
  \/ resetFlexSDK
  \/ webClientDestroy

\* the timers of collect() and show() for every combination of the options
DelayNext ==
  \/ \E o \in DelayOptions : collectSetTimeout(o)
  \/ \E o \in DelayOptions : showSetTimeout(o)

\* the older ChallengeModal
LegacyNext ==
  \/ \E t \in TypeOptions, x \in TxnOptions :
        legacyShow([type |-> t, transactionId |-> x])
  \/ \E d \in MsgData : legacyWindowMessage(d)
  \/ \E s \in Sessions : legacyTimerFire(s)
  \/ legacyClose
  \/ legacyDestroy

\* the older waitForLibrary
LegacyWaitNext ==
  \/ \E n \in MaxRetriesValues : legacyWaitForLibrary(n)
  \/ legacyWaitTimer
  \/ \E g \in Globals : legacyScriptDefines(g)

Next == ModalNext \/ CollectorNext \/ LoaderNext \/ TokenizeNext \/ DecodeNext
        \/ FacadeNext \/ AdapterNext \/ WebClientNext \/ DelayNext
        \/ LegacyNext \/ LegacyWaitNext

Spec == Init /\ [][Next]_vars

ModalSpec == Init /\ [][ModalNext]_vars

CollectorSpec == Init /\ [][CollectorNext]_vars

LoaderSpec == Init /\ [][LoaderNext]_vars

TokenizeSpec == Init /\ [][TokenizeNext]_vars

DecodeSpec == Init /\ [][DecodeNext]_vars

FacadeSpec == Init /\ [][FacadeNext]_vars

AdapterSpec == Init /\ [][AdapterNext]_vars

WebClientSpec == Init /\ [][WebClientNext]_vars

DelaySpec == Init /\ [][DelayNext]_vars

LegacySpec == Init /\ [][LegacyNext]_vars

LegacyWaitSpec == Init /\ [][LegacyWaitNext]_vars

\* the challenge timers are scheduled events: an armed timer eventually fires
ModalFairSpec == ModalSpec /\ \A s \in Sessions : WF_vars(timerFire(s))

\* an armed timer of the collector eventually fires
CollectorFairSpec ==
  CollectorSpec /\ \A k \in Collects : WF_vars(ddTimerFire(k))

\* the fetch of a script ends with 'load' or 'error'; a sleep ends
LoaderFairSpec ==
  /\ LoaderSpec
  /\ \A t \in Calls : WF_vars(scriptLoad(t, TRUE) \/ scriptLoad(t, FALSE)
                              \/ scriptError(t))
  /\ \A a \in Calls : WF_vars(pollTick(a))

(***************************************************************************)
(* ChallengeModal: properties.                                             *)
(***************************************************************************)
Settled(s) == promise[s].st \in {"resolved", "rejected"}

Showing(s) == promise[s].st = "pending"

InListeners(s) == \E i \in 1..Len(winListeners) : winListeners[i] = s

\* C1: once the promise of a show() call is resolved or rejected, later
\* messages, timer expiries, close() and destroy() calls are no-ops for it:
\* its outcome does not change, resolve/reject of that promise is not called
\* again, and the expiry of that call's timer tears nothing down.
C1_SettledIsFinal ==
  [][\A s \in Sessions :
       Settled(s) =>
         /\ promise'[s] = promise[s]
         /\ settleCalls'[s] = settleCalls[s]
         /\ timerFire(s) =>
              UNCHANGED <<overlay, form, messageListener, timeoutId,
                          isResolved, rejectPromise, docOverlays, docForms,
                          winListeners>>]_vars

\* C2: while a show() call is in the showing state, the first of {accepted
\* completion message, expiry of its timer, close()} decides its terminal
\* state: the message resolves it with the message's data, the timer rejects
\* it with the timeout error, close() rejects it with the manual-close error;
\* a settled promise never changes to the other terminal state.
C2_FirstEventWins ==
  [][\A s \in Sessions :
       /\ Showing(s) =>
            /\ \A d \in MsgData :
                 (windowMessage(d) /\ Accepts(opts[s], d))
                   => promise'[s] = Resolved(d)
            /\ timerFire(s) => promise'[s] = Rejected(TimeoutError)
            /\ close => promise'[s] = Rejected("Challenge closed manually")
       /\ Settled(s) => promise'[s].st = promise[s].st]_vars

\* C3: every promise returned by show() is eventually resolved or rejected,
\* provided armed timers eventually fire.
C3_EveryShowSettles ==
  \A s \in Sessions : Showing(s) ~> Settled(s)

\* C4: at most one challenge session is alive per controller: at most one
\* overlay, one step-up form, one registered message listener and one
\* pending timer of the controller exist in every reachable state.
C4_AtMostOneSession ==
  /\ Cardinality(docOverlays) <= 1
  /\ Cardinality(docForms) <= 1
  /\ Len(winListeners) <= 1
  /\ Cardinality(timers) <= 1

\* C5: entering showing adds the overlay and the form, registers the
\* listener and submits the form; in every state where the promise of a
\* show() call is settled, none of the overlay, form, listener and timer
\* created by that call remain.
C5_TeardownOnSettle ==
  \A s \in Sessions :
    /\ promise[s].st # "none" => s \in submitted
    /\ Settled(s) =>
         /\ s \notin docOverlays
         /\ s \notin docForms
         /\ ~ InListeners(s)
         /\ s \notin timers

(***************************************************************************)
(* Script loader: properties.                                              *)
(***************************************************************************)
TagsInDoc(u) == {t \in Calls : tag[t].inDoc /\ tag[t].url = u}

PollLoops(u) == {a \in Calls : attempt[a].phase = "poll" /\ attempt[a].url = u}

Awaiting(u) == {c \in Calls : caller[c].st = "awaiting" /\ caller[c].url = u}

\* no script element has been taken out of the document (by resetFlexSDK
\* or by the teardown of a URL switch)
NoTagRemoved == \A t \in Calls : tag[t].st # "none" => tag[t].inDoc

LoadSettled(a) == attempt[a].st \in {"resolved", "rejected"}

C7_UrlSwitch ==
  [][\A u \in Urls :
       (/\ waitForLibrary(u)
        /\ flexLoadPromise # 0
        /\ attempt[flexLoadPromise].url # u
        /\ attempt[flexLoadPromise].st \in {"pending", "resolved"})
         => /\ \A t \in Calls : tag'[t].inDoc => tag'[t].url = u
            /\ winFlex' = "undefined"
            /\ TagsInDoc(u)' # {}
            /\ caller'[calls'].awaits # 0
            /\ attempt'[caller'[calls'].awaits].url = u]_vars

\* C8: every load attempt eventually settles (resolved, load timeout or
\* load error), on the path of a newly injected script tag and on the path
\* of a reused script tag.
C8_LoadSettles ==
  \A a \in Calls : (attempt[a].st = "pending") ~> LoadSettled(a)

(***************************************************************************)
(* DeviceDataCollector: properties.                                        *)
(***************************************************************************)
DdResolved(k) == ddPromise[k].st = "resolved"

DdInListeners(k) ==
  \E i \in 1..Len(ddWinListeners) : ddWinListeners[i] = k

\* C9: collect() never rejects: a promise of collect() is never rejected;
\* while it is pending, a message from an allow-listed origin resolves it
\* with {success:true} and the expiry of its timer resolves it with
\* {success:true, timeout:true}.  (The message case is stated for a call
\* whose listener is registered when the message is dispatched, so that a
\* cleanup() or destroy() by the application is not counted against it.)
C9_CollectNeverRejects ==
  [][\A k \in Collects :
       /\ ddPromise'[k].st \in {"none", "pending", "resolved"}
       /\ ddPromise[k].st = "pending" =>
            /\ \A o \in Origins :
                 (ddWindowMessage(o) /\ OriginAllowed(o) /\ DdInListeners(k))
                   => ddPromise'[k] = DdSuccess
            /\ ddTimerFire(k) => ddPromise'[k] = DdSuccessTimeout]_vars

\* C10: in every state where a collect() promise has resolved, the hidden
\* iframe, the hidden form and the message listener created by that call
\* are no longer in the document / registered.
C10_CollectorTeardown ==
  \A k \in Collects :
    DdResolved(k) =>
      /\ k \notin ddDocIframes
      /\ k \notin ddDocForms
      /\ ~ DdInListeners(k)

(***************************************************************************)
(* FlexMicroform.tokenize: properties.                                     *)
(***************************************************************************)
Tokenized(i) == tokenization[i].st = "called"

\* the month denotes a number below 1 or above 12
MonthOutOfRange(m) == parseInt(m) # NaN /\ (parseInt(m) < 1 \/ parseInt(m) > 12)

\* the four-digit year that the expiry year stands for: the current century
\* plus yy for a two-digit year, the year itself otherwise
ExpectedYear(y, n) ==
  IF Len(y) = 2 THEN toString((n \div 100) * 100 + parseInt(y)) ELSE y

YearInPast(y, n) ==
  /\ y # << >>
  /\ \A k \in 1..Len(y) : y[k] \in DigitChars
  /\ parseInt(ExpectedYear(y, n)) < n

\* C11: a tokenize call whose month is below 1 or above 12, or whose
\* normalized year is strictly less than the current year, returns a promise
\* that is rejected; createToken of the vendor is not invoked for it, then
\* or later, and the call leaves the fields of the adapter as they were.
C11_ExpiryRejected ==
  /\ [](\A i \in Tokenizes :
          (Tokenized(i)
             /\ (MonthOutOfRange(tokenization[i].expiryMonth)
                 \/ YearInPast(tokenization[i].expiryYear,
                               tokenization[i].fullYear)))
          => /\ tokenization[i].returned.st = "rejected"
             /\ tokenization[i].createToken = "none")
  /\ [][\A m \in MonthInputs, y \in YearInputs, n \in FullYears :
          (tokenize(m, y, n) /\ (MonthOutOfRange(m) \/ YearInPast(y, n)))
          => UNCHANGED <<constructed, abortSignal, microform>>]_vars

C11_Witness ==
  \E i \in Tokenizes :
    /\ Tokenized(i)
    /\ microform
    /\ ~ MonthOutOfRange(tokenization[i].expiryMonth)
    /\ Len(tokenization[i].expiryYear) = 2
    /\ YearInPast(tokenization[i].expiryYear, tokenization[i].fullYear)
    /\ tokenization[i].returned =
         FmRejected("Card has expired. Please use a valid card.")
    /\ tokenization[i].createToken = "none"

\* the month is given with one or two digits and lies in 1..12
ValidMonth(m) ==
  /\ Len(m) \in {1, 2}
  /\ \A k \in 1..Len(m) : m[k] \in DigitChars
  /\ parseInt(m) \in 1..12

\* the year is given with two or four digits and is not in the past
ValidYear(y, n) ==
  /\ Len(y) \in {2, 4}
  /\ \A k \in 1..Len(y) : y[k] \in DigitChars
  /\ parseInt(ExpectedYear(y, n)) >= n

ExpectedMonth(m) == IF Len(m) = 1 THEN <<"0">> \o m ELSE m

\* C12: a tokenize call on an initialized adapter with a month of one or two
\* digits in 1..12 and a valid year of two or four digits hands to the vendor
\* the month left-padded with '0' to two digits and a four-digit year (the
\* current century plus yy for a two-digit year, the year itself for a
\* four-digit year), and a result it resolves with carries the same two
\* strings as expiryMonth and expiryYear.
C12_ExpiryNormalized ==
  /\ [](\A i \in Tokenizes :
          LET w == tokenization[i]
              em == ExpectedMonth(w.expiryMonth)
              ey == ExpectedYear(w.expiryYear, w.fullYear)
          IN (Tokenized(i) /\ ValidMonth(w.expiryMonth)
                /\ ValidYear(w.expiryYear, w.fullYear))
             => /\ Len(em) = 2 /\ Len(ey) = 4
                /\ w.createToken # "none"
                     => w.options = [expirationMonth |-> em,
                                     expirationYear |-> ey]
                /\ w.returned.st = "resolved"
                     => /\ w.returned.result.expiryMonth = em
                        /\ w.returned.result.expiryYear = ey)
  /\ [][\A m \in MonthInputs, y \in YearInputs, n \in FullYears :
          (tokenize(m, y, n) /\ microform /\ ValidMonth(m) /\ ValidYear(y, n))
          => tokenization'[tokenizes'].createToken = "pending"]_vars

C12_Witness ==
  \E i \in Tokenizes :
    /\ tokenization[i].expiryMonth = <<"1">>
    /\ tokenization[i].expiryYear = <<"2", "9">>
    /\ tokenization[i].fullYear = 2025
    /\ tokenization[i].returned.st = "resolved"
    /\ tokenization[i].returned.result.expiryMonth = <<"0", "1">>
    /\ tokenization[i].returned.result.expiryYear = <<"2", "0", "2", "9">>

\* C13: when the callback of createToken reports an error, the promise of
\* doTokenize is rejected with the message derived from the vendor's error
\* and the promise of tokenize is rejected (with that message unless the
\* timeout or the abort signal rejected it before); when the callback
\* reports no error and no token, both are rejected as well; the promise of
\* tokenize is resolved only by a callback with a non-empty token and no
\* error.
C13_TokenizeFailure ==
  /\ [][\A i \in Tokenizes, e \in VendorErrors, t \in Tokens :
          createTokenReturns(i, e, t) =>
            LET w == tokenization[i]
                v == tokenization'[i]
            IN /\ ~ e.isNull =>
                    /\ v.promise = FmRejected(errorMessage(e))
                    /\ v.returned.st = "rejected"
                    /\ w.returned.st = "pending" => v.returned = v.promise
               /\ (e.isNull /\ t \in {NoToken, EmptyToken}) =>
                    /\ v.promise.st = "rejected"
                    /\ v.returned.st = "rejected"
               /\ v.returned.st = "resolved" =>
                    e.isNull /\ t \notin {NoToken, EmptyToken}]_vars
  /\ [][\A i \in Tokenizes :
          (tokenization[i].returned.st # "resolved"
             /\ tokenization'[i].returned.st = "resolved")
          => \E e \in VendorErrors, t \in Tokens :
               createTokenReturns(i, e, t)]_vars

C13_Witness ==
  \E i \in Tokenizes :
    /\ tokenization[i].createToken = "called"
    /\ tokenization[i].returned = FmRejected("vendor message")
    /\ tokenization[i].settled

\* the middle segment cannot be base64/JSON decoded
Undecodable(seg) == ~ seg.b64 \/ seg.len % 4 = 1 \/ ~ seg.json

\* C14: when the callback of createToken delivers a non-empty token without
\* error, the promise of doTokenize is resolved whatever the token contains,
\* and so is the promise of tokenize unless the timeout or the abort signal
\* rejected it before; the result carries the token unchanged, and the
\* placeholder masked PAN and the card type 'unknown' if the token does not
\* have three segments or its middle segment cannot be decoded.
C14_DecodeDegrades ==
  [][\A i \in Tokenizes, t \in Tokens :
       (createTokenReturns(i, NoError, t) /\ t \notin {NoToken, EmptyToken})
       => LET w == tokenization[i]
              v == tokenization'[i]
          IN /\ v.promise.st = "resolved"
             /\ v.promise.result.token = t
             /\ w.returned.st = "pending" => v.returned = v.promise
             /\ (Len(t) # 3 \/ Undecodable(t[2])) =>
                  /\ v.promise.result.maskedPan = Placeholder
                  /\ v.promise.result.cardType = "unknown"]_vars

C14_Witness ==
  \E i \in Tokenizes :
    /\ tokenization[i].returned.st = "resolved"
    /\ Len(tokenization[i].returned.result.token) = 3
    /\ Undecodable(tokenization[i].returned.result.token[2])
    /\ tokenization[i].returned.result.token[2].payload.number
    /\ tokenization[i].returned.result.maskedPan = Placeholder
    /\ tokenization[i].returned.result.cardType = "unknown"

(***************************************************************************)
(* decodeCaptureContext: properties.                                       *)
(***************************************************************************)
FormatError == "Invalid capture context format - expected JWT with 3 parts"

MissingFieldError == "clientLibrary not found in capture context"

\* the payload of a three-segment context decodes to JSON whose ctx, in the
\* array or the object form, has a data object
HasContextData(c) ==
  /\ ~ Undecodable(c[2])
  /\ c[2].payload.form \in {"array", "object"}
  /\ c[2].payload.data

\* the payload decodes to JSON without a clientLibrary field
LacksClientLibrary(c) ==
  /\ ~ Undecodable(c[2])
  /\ c[2].payload.form # "null"
  /\ ~ HasContextData(c) \/ c[2].payload.clientLibrary = "none"

\* the result carries exactly the two values of the payload
ReturnsPayloadValues(c, r) ==
  /\ r.err = "none"
  /\ r.clientLibrary = c[2].payload.clientLibrary
  /\ r.clientLibraryIntegrity = c[2].payload.clientLibraryIntegrity

\* C15, as stated: a capture context that does not consist of exactly three
\* segments fails with the format error; a three-segment context whose
\* decoded payload has no clientLibrary field fails with the missing-field
\* error; a three-segment context whose decoded payload has the field
\* returns exactly the payload's clientLibrary and clientLibraryIntegrity.
C15_DecodeAsStated ==
  LET c == decoding.captureContext
      r == decoding.result
  IN decoding.st = "called" =>
       /\ Len(c) # 3 => r.err = FormatError
       /\ (Len(c) = 3 /\ LacksClientLibrary(c)) => r.err = MissingFieldError
       /\ (Len(c) = 3 /\ HasContextData(c)
             /\ c[2].payload.clientLibrary # "none")
            => ReturnsPayloadValues(c, r)

\* C15, amended: the empty capture context fails with the 'required' error;
\* a non-empty one that does not consist of exactly three segments fails
\* with the format error; a three-segment context whose payload cannot be
\* decoded (or is the JSON null) fails with the decode error; one whose
\* decoded payload has no clientLibrary, or an empty one, fails with the
\* missing-field error; every other context returns exactly the payload's
\* clientLibrary and clientLibraryIntegrity.
C15_DecodeOutcome ==
  LET c == decoding.captureContext
      r == decoding.result
  IN decoding.st = "called" =>
       /\ c = EmptyContext => r.err = "Capture context is required"
       /\ (c # EmptyContext /\ Len(c) # 3) => r.err = FormatError
       /\ (Len(c) = 3 /\ (Undecodable(c[2]) \/ c[2].payload.form = "null"))
            => r.err = "Failed to decode capture context"
       /\ (Len(c) = 3 /\ (LacksClientLibrary(c)
                           \/ (HasContextData(c)
                               /\ c[2].payload.clientLibrary = "")))
            => r.err = MissingFieldError
       /\ (Len(c) = 3 /\ HasContextData(c)
             /\ c[2].payload.clientLibrary \notin {"none", ""})
            => ReturnsPayloadValues(c, r)

C15_Witness ==
  /\ decoding.st = "called"
  /\ Len(decoding.captureContext) = 3
  /\ decoding.captureContext[2].payload.form = "array"
  /\ decoding.result = [err |-> "none", clientLibrary |-> "A",
                        clientLibraryIntegrity |-> "sha256-A"]

(***************************************************************************)
(* WebClient and FlexMicroform: properties.                                *)
(***************************************************************************)
\* adapter a holds something: its style element, vendor objects, loaded
\* fields, or fields of it that are in the document
Active(a) ==
  /\ adapter[a].st = "created"
  /\ \/ adapter[a].styleElement
     \/ adapter[a].flex
     \/ adapter[a].microform
     \/ adapter[a].fields # {}
     \/ \E t \in FieldTypes : Mounted(a, t)

\* C16: a WebClient has at every moment at most one active FlexMicroform,
\* the one it owns: an adapter that setupFlexMicroform has replaced holds
\* no vendor object, no style element and no field in the document.
C16_OneActiveAdapter == \A a \in Calls : Active(a) => flexMicroform = a
\* the script-load state that is visible to the page and to later calls
ScriptState == <<tag, winFlex, flexLoadPromise, loadedFlexScriptUrl>>

\* a step removes a script tag from the document, deletes window.Flex or
\* clears loadedFlexScriptUrl
PurgeStep ==
  \/ \E t \in Calls : tag[t].inDoc /\ ~ tag'[t].inDoc
  \/ winFlex # "undefined" /\ winFlex' = "undefined"
  \/ loadedFlexScriptUrl # "null" /\ loadedFlexScriptUrl' = "null"

\* after the step no script tag is in the document, window.Flex is deleted
\* and both cache variables are cleared
Purged ==
  /\ \A t \in Calls : ~ tag[t].inDoc
  /\ winFlex = "undefined"
  /\ flexLoadPromise = 0
  /\ loadedFlexScriptUrl = "null"

\* what WebClient.destroy leaves of the collector, the modal and the adapter
TornDown ==
  /\ ddIframe' = NoSession /\ ddIframe \notin ddDocIframes'
  /\ ddForm' = NoSession /\ ddForm \notin ddDocForms'
  /\ ddMessageListener' = NoSession
  /\ \A i \in 1..Len(ddWinListeners') : ddWinListeners'[i] # ddMessageListener
  /\ overlay' = NoSession /\ overlay \notin docOverlays'
  /\ form' = NoSession /\ form \notin docForms'
  /\ messageListener' = NoSession
  /\ \A i \in 1..Len(winListeners') : winListeners'[i] # messageListener
  /\ timeoutId' = NoSession /\ timeoutId \notin timers'
  /\ isResolved'
  /\ flexMicroform' = 0
  /\ \A a \in Calls : a = flexMicroform => adapter'[a].destroyed /\ ~ Active(a)'

\* a setupFlexMicroform call for another url than the loaded one
SetupOfOtherUrl ==
  /\ calls' = calls + 1
  /\ loadedFlexScriptUrl # "null"
  /\ caller'[calls'].url # loadedFlexScriptUrl

\* C17 as stated: destroy() tears down the collector, the modal and the
\* owned adapter and leaves the script tag, window.Flex, flexLoadPromise and
\* loadedFlexScriptUrl as they are; resetFlexSDK() purges them, and no other
\* step removes a script tag, deletes the global or clears the loaded url.
C17_OnlyResetPurges ==
  [][/\ webClientDestroy => TornDown /\ UNCHANGED ScriptState
     /\ resetFlexSDK => Purged'
     /\ PurgeStep => resetFlexSDK]_vars

\* C17, amended: as above, but a setupFlexMicroform call for a url other
\* than the loaded one purges the script state too, before it loads the
\* new script.
C17_DestroyKeepsScript ==
  [][/\ webClientDestroy => TornDown /\ UNCHANGED ScriptState
     /\ resetFlexSDK => Purged'
     /\ PurgeStep => resetFlexSDK \/ SetupOfOtherUrl]_vars

\* destroy() has torn down a challenge, a collection and an initialized
\* adapter while the loaded script is kept
C17_Witness ==
  /\ flexMicroform = 0
  /\ \E a \in Calls : adapter[a].st = "created" /\ adapter[a].destroyed
                      /\ adapter[a].stage = "done"
  /\ \E s \in Sessions : promise[s] = Rejected("ChallengeModal destroyed")
  /\ collects > 0 /\ ddDocIframes = {}
  /\ winFlex # "undefined" /\ loadedFlexScriptUrl = winFlex
  /\ flexLoadPromise # 0
  /\ \E t \in Calls : tag[t].inDoc
\* the fields of adapter a are in containers that adapter a generated
InOwnContainers(a) ==
  \A h \in Containers, t \in FieldTypes :
     <<a, t>> \in mounted[h] => hostContent[h] = a

\* C18: initialize() creates exactly the two fields 'number' and
\* 'securityCode' and mounts them into the containers it generated; its
\* promise is resolved only with the handle and only when both fields have
\* reported load; once a field has reported an error or its load has
\* thrown, the promise is rejected (and so never resolved).
C18_FieldsAndHandle ==
  \A a \in Calls :
     /\ adapter[a].created \in {<< >>, <<"number", "securityCode">>}
     /\ InOwnContainers(a)
     /\ adapter[a].returned.st = "resolved"
          => /\ adapter[a].returned.result = Handle
             /\ \A t \in FieldTypes : adapter[a].field[t] = "loaded"
     /\ (\E t \in FieldTypes : adapter[a].field[t] = "failed")
          => adapter[a].returned.st = "rejected"
\* initialize() of adapter a has written its containers and style element
CreatedDom(a) == adapter[a].stage # "none"

\* the containers or the style element of adapter a are in the document
DomLeft(a) ==
  \/ \E h \in Containers : hostContent[h] = a
  \/ a \in docStyles

\* C19: when initialize() has ended in rejection after it created DOM, the
\* field containers it wrote into the host element and its
\* <style data-flex-microform> element are not in the document.
C19_DomCleanedOnReject ==
  \A a \in Calls :
     adapter[a].returned.st = "rejected" /\ CreatedDom(a) => ~ DomLeft(a)
(***************************************************************************)
(* ChallengeModal: the transactionId of a completion message.              *)
(***************************************************************************)
\* the type of the message is one that the show() call with options o takes
AcceptedType(o, data) ==
  /\ data.obj
  /\ data.type = expectedMessageType(o) \/ data.type = "3DS_CHALLENGE_COMPLETE"

\* the message names another transaction than the options
TxnDiffers(o, data) ==
  /\ o.transactionId # "none"
  /\ data.transactionId # "none"
  /\ data.transactionId # o.transactionId

\* the step removes nothing of what show() number s put into the page
KeepsSession(s) ==
  /\ s \in docOverlays => s \in docOverlays'
  /\ s \in docForms => s \in docForms'
  /\ s \in timers => s \in timers'
  /\ InListeners(s) => InListeners(s)'

\* C20: while show() number s is showing, a message of an accepted type
\* whose transactionId is present and differs from the transactionId of the
\* options is ignored (the promise stays pending, nothing of the session is
\* torn down); a message of an accepted type whose transactionId is equal,
\* or absent on either side, resolves the promise with the message data.
C20_TransactionMatching ==
  [][\A d \in MsgData, s \in Sessions :
       windowMessage(d) /\ promise[s].st = "pending" /\ AcceptedType(opts[s], d)
         => IF TxnDiffers(opts[s], d)
            THEN promise'[s].st = "pending" /\ KeepsSession(s)
            ELSE promise'[s] = Resolved(d)]_vars
(***************************************************************************)
(* ChallengeModal: the type of a completion message.                       *)
(***************************************************************************)
\* the data of the message is an object whose type is the expected
\* completion tag of the show() call with options o
HasExpectedType(o, data) == data.obj /\ data.type = expectedMessageType(o)

\* C21: while show() number s is showing, a window message whose data is
\* not an object with the expected completion tag (the completionMessageType
\* option when given, '3DS_COMPLETE' otherwise) does not settle the promise
\* and tears nothing of the session down; so only a message with the
\* expected tag moves the modal from showing to resolved.
C21_TypeMatching ==
  [][\A d \in MsgData, s \in Sessions :
       windowMessage(d) /\ promise[s].st = "pending"
       /\ ~ HasExpectedType(opts[s], d)
         => promise'[s].st = "pending" /\ KeepsSession(s)]_vars
(***************************************************************************)
(* The timeout options: properties.                                        *)
(***************************************************************************)
\* the delay that the documentation promises for the options o (a
\* timeoutMs of 0 is taken as not given)
DocumentedDelay(o, default) ==
  IF Truthy(o.timeoutMs) THEN o.timeoutMs.ms ELSE default

\* C22: the timer of collect() is armed with the milliseconds of the
\* documented option timeoutMs when it is given, and with 10000 ms
\* otherwise.
C22_CollectTimeoutOption ==
  timerDelay.collect.called
    => timerDelay.collect.ms
         = DocumentedDelay(timerDelay.collect.options, 10000)

\* C23: the timer of show() is armed with the milliseconds of the
\* documented option timeoutMs when it is given, and with 600000 ms
\* otherwise.
C23_ShowTimeoutOption ==
  timerDelay.show.called
    => timerDelay.show.ms = DocumentedDelay(timerDelay.show.options, 600000)
(***************************************************************************)
(* FlexMicroform.withTimeout: properties.                                  *)
(***************************************************************************)
IsSettled(p) == p.st \in {"resolved", "rejected"}

\* C24: the promise that withTimeout returns for tokenize number i settles
\* once and keeps its outcome whatever happens later; while it is pending,
\* the end of the operation settles it with the outcome of the operation,
\* the timer with the timeout error and the abort signal with the abort
\* error; a settled wrapper has no armed timer; when the signal is already
\* aborted at the start, the wrapper rejects with the abort error and arms
\* no timer.
C24_TimeoutRace ==
  [][\A i \in Tokenizes :
       LET w == tokenization[i]
           w2 == tokenization'[i]
       IN /\ IsSettled(w.returned) => w2.returned = w.returned
          /\ IsSettled(w2.returned) => ~ w2.timer
          /\ w.returned.st = "pending"
               => /\ (\E e \in VendorErrors, t \in Tokens :
                         createTokenReturns(i, e, t))
                       => IsSettled(w2.promise) /\ w2.returned = w2.promise
                  /\ tokenizeTimer(i) => w2.returned = FmRejected(TimedOut)
                  /\ abort => w2.returned = FmRejected(AbortError)
          /\ w.st = "none" /\ w2.st = "called"
               => IF abortSignal = "aborted"
                  THEN w2.returned = FmRejected(AbortError)
                  ELSE IF IsSettled(w2.promise)
                  THEN w2.returned = w2.promise
                  ELSE w2.returned = FmPending /\ w2.timer]_vars

\* the timer fired first, the signal was aborted after it and the
\* operation ended last
C24_Witness ==
  \E i \in Tokenizes :
     /\ tokenization[i].returned = FmRejected(TimedOut)
     /\ tokenization[i].promise.st = "resolved"
     /\ abortSignal = "aborted"
(***************************************************************************)
(* The older ChallengeModal: properties.                                   *)
(***************************************************************************)
\* C25: in the older ChallengeModal, the timer of a show() call whose
\* promise was already resolved by a completion message changes nothing
\* when it fires: neither the promise nor the instance fields, the DOM
\* nodes, the listener and currentReject, also not those of a later
\* show() call.
C25_LegacyStaleTimer ==
  [][\A s \in Sessions :
       legacyTimerFire(s) /\ legacyModal.promise[s].st = "resolved"
         => legacyModal' = [legacyModal EXCEPT !.timers = @ \ {s}]]_vars
(***************************************************************************)
(* DeviceDataCollector: the origin of a message.                           *)
(***************************************************************************)
\* the origin contains 'cardinalcommerce.com' or 'centinelapi'
ContainsAllowedName(origin) ==
  \E name \in {"cardinalcommerce.com", "centinelapi"} : includes(origin, name)

\* C26: a window message whose origin contains neither
\* 'cardinalcommerce.com' nor 'centinelapi' resolves no collect() promise
\* and triggers no cleanup; a message whose origin contains one of them
\* resolves the promise of a collect() call that is in progress (pending,
\* listener registered, timer not yet fired) with {success:true}, without
\* the timeout flag.
C26_OriginAllowList ==
  [][\A o \in Origins :
       ddWindowMessage(o)
         => IF ContainsAllowedName(o)
            THEN \A k \in Collects :
                    ddPromise[k] = DdPending /\ DdInListeners(k)
                    /\ k \in ddTimers
                      => ddPromise'[k] = DdSuccess
            ELSE UNCHANGED collectorVars]_vars
(***************************************************************************)
(* ChallengeModal: the origin of a message.                                *)
(***************************************************************************)
\* C27: the origin of a message never influences the challenge modal: in
\* every reachable state, two messages with the same data and different
\* origins lead to the same promise outcomes and the same state; so two
\* runs with the same events that differ only in origins stay identical.
C27_OriginIndependence ==
  \A d \in MsgData, o1 \in Origins, o2 \in Origins :
     dispatch(ModalState, winListeners, Event(o1, d))
       = dispatch(ModalState, winListeners, Event(o2, d))

\* a challenge is showing that a message from the merchant's own origin
\* resolves, after an earlier challenge was resolved by a message
C27_Witness ==
  /\ \E s \in Sessions : promise[s].st = "resolved"
  /\ \E s \in Sessions, d \in MsgData :
        /\ promise[s].st = "pending"
        /\ dispatch(ModalState, winListeners,
                    Event(<<"https://", "merchant.example">>, d)).promise[s].st
             = "resolved"

(***************************************************************************)
(* C28.  Base64url padding.                                                *)
(***************************************************************************)
\* the payload segment of the capture context that reached atob
HandedToAtob ==
  /\ decoding.st = "called"
  /\ decoding.captureContext # EmptyContext
  /\ Len(decoding.captureContext) = 3

SegmentLength == decoding.captureContext[2].len

\* C28 as stated: for every length of the payload segment, the string that
\* is handed to atob has a length that is a multiple of 4.
C28_PaddedToMultipleOf4 ==
  HandedToAtob => paddedLength(SegmentLength) % 4 = 0

\* C28 amended: the string handed to atob has a length that is a multiple
\* of 4 unless the segment length is one more than a multiple of 4; then
\* '=='.substring gives two characters where three are asked for, the
\* length is the segment length plus 2, and the decoding fails.
C28_PaddedUnlessOneOver ==
  HandedToAtob =>
    IF SegmentLength % 4 = 1
    THEN /\ paddedLength(SegmentLength) = SegmentLength + 2
         /\ decoding.result = DecodeError("Failed to decode capture context")
    ELSE /\ paddedLength(SegmentLength) % 4 = 0
         /\ paddedLength(SegmentLength) - SegmentLength \in 0..2

\* a segment that needs two characters of padding was decoded
C28_Witness ==
  /\ HandedToAtob
  /\ SegmentLength % 4 = 2
  /\ decoding.result.err = "none"

(***************************************************************************)
(* C30.  The older WebClient.waitForLibrary.                               *)
(***************************************************************************)
\* a step of the call itself: its start or the end of one of its waits
LoopChecked ==
  /\ legacyWait' # legacyWait
  /\ legacyWait'.FLEX = legacyWait.FLEX
  /\ legacyWait'.Flex = legacyWait.Flex

C30_Step ==
  LET w == legacyWait'
  IN /\ w.retries <= w.maxRetries
     /\ w.pc = "waiting" => w.retries < w.maxRetries
     /\ LoopChecked =>
          /\ w.pc = "resolved" <=> globalDefined(w)
          /\ w.pc = "rejected" <=>
               ~ globalDefined(w) /\ w.retries = w.maxRetries
          /\ w.pc = "rejected" => w.err = LegacyLoadError
     /\ ~ LoopChecked => w.pc = legacyWait.pc

\* C30: a call makes at most maxRetries waits; at its start and after each
\* wait it resolves if window.FLEX or window.Flex is defined, also after the
\* last wait, and it throws 'Flex SDK failed to load' exactly when neither
\* is defined and maxRetries waits are done.
C30_LegacyWaitForLibrary == [][C30_Step]_vars

\* the global became defined during the last wait and the call resolved
C30_Witness ==
  /\ legacyWait.pc = "resolved"
  /\ legacyWait.maxRetries = legacyMaxRetries
  /\ legacyWait.retries = legacyWait.maxRetries

(***************************************************************************)
(* C29.  Masked PAN and brand of a decoded token.                          *)
(***************************************************************************)
\* a result of doTokenize whose token has a decodable middle segment
DecodedResult(i) ==
  /\ tokenization[i].promise.st = "resolved"
  /\ Len(tokenization[i].promise.result.token) = 3
  /\ ~ Undecodable(tokenization[i].promise.result.token[2])

CardOf(i) == tokenization[i].promise.result.token[2].payload

Bulleted(b, n, s) == [bin |-> b, bullets |-> n, suffix |-> s]

StatedMaskedPan(card) ==
  IF card.number /\ card.bin # "" /\ card.suffix # ""
  THEN Bulleted(card.bin, 6, card.suffix)
  ELSE IF card.number /\ card.bin # "" THEN Bulleted(card.bin, 8, "")
  ELSE IF card.number /\ card.suffix # "" THEN Bulleted("", 8, card.suffix)
  ELSE Bulleted("", 12, "")

LowerCased(x) == IF x \in DOMAIN toLowerCase THEN toLowerCase[x] ELSE x

StatedCardType(card) ==
  IF card.number /\ card.detected # "none" THEN LowerCased(card.detected)
  ELSE IF card.typeName # "none" THEN LowerCased(card.typeName)
  ELSE "unknown"

\* the value that toLowerCase is called on is a string
TypeIsString(card) ==
  IF card.number /\ card.detected # "none" THEN card.detected # "nonString"
  ELSE card.typeName # "nonString"

\* C29 as stated: the masked PAN of a decoded token is bin + 6 bullets +
\* suffix, bin + 8 bullets, 8 bullets + suffix or the 12-bullet placeholder
\* according to which of bin and suffix are present; the card type is the
\* lower-cased first detected type, else the lower-cased type name, else
\* 'unknown'.
C29_MaskedPanAndBrand ==
  \A i \in Tokenizes :
    DecodedResult(i) =>
      /\ tokenization[i].promise.result.maskedPan = StatedMaskedPan(CardOf(i))
      /\ tokenization[i].promise.result.cardType = StatedCardType(CardOf(i))

\* C29 amended: the same, for a token whose first detected type (or, when
\* there is none, whose type name) is a string; otherwise toLowerCase
\* throws and the result has the placeholder masked PAN and 'unknown',
\* whatever bin and suffix are.
C29_MaskedPanAndBrandOfStrings ==
  \A i \in Tokenizes :
    DecodedResult(i) =>
      IF TypeIsString(CardOf(i))
      THEN /\ tokenization[i].promise.result.maskedPan
                = StatedMaskedPan(CardOf(i))
           /\ tokenization[i].promise.result.cardType
                = StatedCardType(CardOf(i))
      ELSE /\ tokenization[i].promise.result.maskedPan = Placeholder
           /\ tokenization[i].promise.result.cardType = "unknown"

\* a token with a bin only, a detected type and a type name was decoded
C29_Witness ==
  \E i \in Tokenizes :
    /\ DecodedResult(i)
    /\ CardOf(i) = Card("411111", "", "VISA", "MASTERCARD")
    /\ tokenization[i].promise.result.maskedPan = Bulleted("411111", 8, "")
    /\ tokenization[i].promise.result.cardType = "visa"


(***************************************************************************)
(* C31.  DeviceDataCollector: the timer of a completed collect().          *)
(***************************************************************************)
\* C31: the timer of a collect() call that a message already completed
\* changes nothing when it fires: it removes no iframe, form or listener,
\* also not those of a later collect() call, and it settles no promise.
C31_StaleTimerIsolated ==
  [][\A k \in Collects :
       ddTimerFire(k) /\ ddPromise[k] = DdSuccess
         => UNCHANGED <<ddIframe, ddForm, ddMessageListener, ddDocIframes,
                        ddDocForms, ddWinListeners, ddPromise>>]_vars


(***************************************************************************)
(* C32.  Script loader: a call after a failed load.                        *)
(***************************************************************************)
\* a load attempt for url was rejected and no attempt is in flight
FailedBefore(url) ==
  /\ \E a \in Calls : attempt[a].st = "rejected" /\ attempt[a].url = url
  /\ \A a \in Calls : attempt[a].st # "pending"

\* call c returned, or it awaits a pending attempt that waits for a script
\* element that is being fetched or polls for the constructor
CanSucceed(c) ==
  \/ caller'[c].st = "returned"
  \/ /\ caller'[c].st = "awaiting"
     /\ LET a == attempt'[caller'[c].awaits]
        IN /\ a.st = "pending"
           /\ \/ a.phase = "poll"
              \/ a.phase = "load" /\ tag'[a.tag].st = "loading"

\* C32: after a rejected load attempt, a later waitForLibrary call for the
\* same URL does not get the cached rejection and does not wait for an
\* event that cannot come: it starts an attempt that can succeed.
C32_FailedLoadNotCached ==
  [][\A u \in Urls :
       waitForLibrary(u) /\ FailedBefore(u) => CanSucceed(calls')]_vars


(***************************************************************************)
(* C33.  Script loader: the cache variables and the page.                  *)
(***************************************************************************)
\* C33: if loadedFlexScriptUrl is not null, window.Flex is a function that
\* the script with that URL provided and a script element with that URL
\* is in the document.
C33_CacheConsistent ==
  loadedFlexScriptUrl # "null" =>
    /\ winFlex = loadedFlexScriptUrl
    /\ \E t \in Calls : tag[t].inDoc /\ tag[t].url = loadedFlexScriptUrl


(***************************************************************************)
(* C34, C35.  What tokenize hands to createToken of the vendor.            *)
(***************************************************************************)
AllDigits(str) == \A k \in 1..Len(str) : str[k] \in DigitChars

\* C34: whenever createToken of the vendor is invoked, expirationMonth is
\* two digits that denote a month in 01..12 and expirationYear is four
\* digits that denote a year not before the current year.
C34_VendorCallWellFormed ==
  \A i \in Tokenizes :
    tokenization[i].createToken # "none" =>
      LET o == tokenization[i].options
      IN /\ Len(o.expirationMonth) = 2
         /\ AllDigits(o.expirationMonth)
         /\ parseInt(o.expirationMonth) \in 1..12
         /\ Len(o.expirationYear) = 4
         /\ AllDigits(o.expirationYear)
         /\ parseInt(o.expirationYear) >= tokenization[i].fullYear


\* the values of new Date().getMonth() + 1 at the time of the call; the
\* code never reads it
CurrentMonths == 1..12

\* C35: whenever createToken of the vendor is invoked, the (year, month)
\* handed to it is not earlier than the current (year, month), whatever
\* the current month is.
C35_NoExpiredCard ==
  \A i \in Tokenizes, currentMonth \in CurrentMonths :
    tokenization[i].createToken # "none" =>
      LET yearNum == parseInt(tokenization[i].options.expirationYear)
          monthNum == parseInt(tokenization[i].options.expirationMonth)
      IN \/ yearNum > tokenization[i].fullYear
         \/ yearNum = tokenization[i].fullYear /\ monthNum >= currentMonth


(***************************************************************************)
(* C36.  FlexMicroform: the adapter after destroy().                       *)
(***************************************************************************)
\* C36: after destroy() the field map of the adapter is empty, its style
\* element and its fields are not in the document, and microform is null,
\* so that tokenize() rejects with the not-initialized error without a
\* call of createToken; also when destroy() ran during initialize().
C36_DestroyedIsInert ==
  \A a \in Calls :
    adapter[a].destroyed =>
      /\ adapter[a].fields = {}
      /\ ~ adapter[a].styleElement
      /\ a \notin docStyles
      /\ \A h \in Containers, t \in FieldTypes : <<a, t>> \notin mounted[h]
      /\ ~ adapter[a].microform
      /\ doTokenize(adapter[a].microform, <<"1", "2">>,
                    <<"2", "0", "2", "9">>, 2025).err
           = "Microform not initialized. Call initialize() first."


(***************************************************************************)
(* C37.  ChallengeModal.destroy() while a challenge is showing.            *)
(***************************************************************************)
\* C37: destroy() rejects every pending promise of show() with
\* 'ChallengeModal destroyed' and removes the overlay, form, listener and
\* timer: after it no promise of show() is pending and nothing of a
\* session is left in the page.
C37_DestroyRejectsPending ==
  [][destroy =>
       /\ \A s \in Sessions :
            promise[s] = Pending
              => promise'[s] = Rejected("ChallengeModal destroyed")
       /\ docOverlays' = {} /\ docForms' = {}
       /\ winListeners' = << >> /\ timers' = {}]_vars


(***************************************************************************)
(* C38.  DeviceDataCollector: cleanup() / destroy() during a collect().    *)
(***************************************************************************)
\* cleanup()/destroy() removes the iframe, form and listener of every
\* pending collect() and settles no promise
DestroyRemovesAll ==
  ddDestroy =>
    /\ ddPromise' = ddPromise
    /\ \A k \in Collects :
         ddPromise[k] = DdPending
           => /\ k \notin ddDocIframes' /\ k \notin ddDocForms'
              /\ \A i \in 1..Len(ddWinListeners') : ddWinListeners'[i] # k

\* a pending collect() whose listener is gone can only resolve by its timer
OnlyTimerAfterDestroy ==
  \A k \in Collects :
    (/\ ddPromise[k] = DdPending
     /\ \A i \in 1..Len(ddWinListeners) : ddWinListeners[i] # k
     /\ ddPromise'[k] # DdPending)
    => ddPromise'[k] = DdSuccessTimeout

\* C38: cleanup()/destroy() during a pending collect() removes the iframe,
\* form and listener at once and leaves the promise pending; the promise
\* then resolves with {success:true, timeout:true} when its timer fires,
\* so that no collect() stays pending forever.
C38_DestroyThenTimeout ==
  /\ [][DestroyRemovesAll /\ OnlyTimerAfterDestroy]_vars
  /\ \A k \in Collects :
       (ddPromise[k] = DdPending) ~> (ddPromise[k].st = "resolved")

====
